---- MODULE Spec2Model ----
(***************************************************************************)
(* Study planner: the generate / validate / repair loop.                   *)
(*                                                                         *)
(* Two controllers drive the same stages:                                  *)
(*   - the script controller of src/main.py (mode "cli"), a for loop over  *)
(*     attempts 1..MAX_RETRIES around run_validator / run_scheduler_retry; *)
(*   - the agent controller of src/agents/agent.py (mode "adk"), a loop    *)
(*     of at most max_iterations rounds of the scheduler tools             *)
(*     (determine_priorities, generate_schedule) followed by the validator *)
(*     tool (validate_and_format), all sharing one session state.          *)
(*                                                                         *)
(* Conventions.  Dates are day numbers (the code compares parsed           *)
(* "YYYY-MM-DD" strings, which orders them as day numbers).  Hours are     *)
(* written in hundredths of an hour (800 is 8.0 h, 801 is 8.01 h) and held *)
(* as the IEEE 754 doubles json.loads makes of them; sums of hours are     *)
(* double sums, rounded to nearest-even after every addition.              *)
(* An optional value (Python None or a value) is <<>> or <<value>>.        *)
(***************************************************************************)
EXTENDS Integers, Sequences, FiniteSets, TLC

VARIABLES
    mode,            \* "cli", "adk", or "validator" (run_validator alone)
    parser_output,   \* optional catalog: [courses, preferences]
    today,           \* day number of datetime.now()
    pc,              \* controller position
    attempt,         \* cli: loop variable; adk: state["validation_attempt"]
    iteration,       \* adk: round of the schedule loop
    priorities,      \* optional priority table
    schedule,        \* optional candidate (a sequence of day entries)
    errors,          \* ERROR issues of the last validation
    warnings,        \* WARNING issues of the last validation
    csv_output,      \* optional rendered export
    study_plan_csv,  \* optional content of the file study_plan.csv
    escalate,        \* adk: tool_context.actions.escalate
    tool_result,     \* what the last stage returned ("ok", an error name)
    last_request,    \* optional: the last request sent to the oracle
    last_gen,        \* optional: the last generation call and its arguments
    rank_calls,      \* number of ranking oracle calls so far
    gen_calls,       \* number of generation attempts so far
    repair_calls,    \* number of those that were repairs
    val_calls,       \* number of validations run so far
    call             \* the oracle call a stage is making, request by request

vars == << mode, parser_output, today, pc, attempt, iteration, priorities,
           schedule, errors, warnings, csv_output, study_plan_csv, escalate,
           tool_result, last_request, last_gen, rank_calls, gen_calls, repair_calls,
           val_calls, call >>

----------------------------------------------------------------------------
(* Optional values and sequence helpers                                    *)

None == << >>
Some(x) == << x >>
IsSome(o) == o # << >>
Val(o) == o[1]

Range(s) == { s[i] : i \in 1..Len(s) }

RECURSIVE Flatten(_)
Flatten(ss) == IF ss = << >> THEN << >> ELSE Head(ss) \o Flatten(Tail(ss))

RECURSIVE SetMax(_)
SetMax(S) == LET x == CHOOSE y \in S : TRUE
             IN IF S = {x} THEN x
                ELSE LET m == SetMax(S \ {x}) IN IF x > m THEN x ELSE m

----------------------------------------------------------------------------
(* Python floats: IEEE 754 doubles                                         *)
(*                                                                         *)
(* A positive double is m * 2^e with 2^52 <= m < 2^53; the 53-bit m is     *)
(* kept as two limbs, m = hi * 2^28 + lo.  Zero has hi = lo = 0.  Only     *)
(* non-negative values occur (hours).                                      *)

Limb == 2^28

Float(hi, lo, e) == [hi |-> hi, lo |-> lo, e |-> e]

FloatZero == Float(0, 0, 0)

\* (hi * 2^28 + lo) shifted right by s bits, and whether a 1 was shifted out
ShiftRightSticky(hi, lo, s) ==
    IF s >= 58
    THEN [hi |-> 0, lo |-> 0, sticky |-> hi # 0 \/ lo # 0]
    ELSE IF s >= 28
    THEN [hi |-> 0, lo |-> hi \div 2^(s - 28),
          sticky |-> lo # 0 \/ hi % 2^(s - 28) # 0]
    ELSE [hi |-> hi \div 2^s,
          lo |-> (lo \div 2^s) + (hi % 2^s) * 2^(28 - s),
          sticky |-> lo % 2^s # 0]

\* the limbs after the carry out of the low one, renormalised when the
\* mantissa reaches 2^53
Renormalised(hi, lo, e) ==
    IF hi + lo \div Limb = 2^25 THEN Float(2^24, 0, e + 1)
    ELSE Float(hi + lo \div Limb, lo % Limb, e)

\* the two limbs, plus one if the dropped bits round up
RoundedMantissa(hi, lo, e, up) ==
    Renormalised(hi, lo + (IF up THEN 1 ELSE 0), e)

\* round to nearest, ties to even: q is the sum without its last bits,
\* rem those bits, half their midpoint, sticky a 1 lost in the alignment
AddNearest(q, rem, half, sticky, e) ==
    RoundedMantissa(q.hi, q.lo, e,
                    \/ rem > half
                    \/ rem = half /\ (sticky \/ q.lo % 2 = 1))

\* the sum has 55 or 56 bits: drop 2 or 3 of them
AddDrop(hi, lo, k, sticky, e) ==
    AddNearest(ShiftRightSticky(hi, lo, k), lo % 2^k, 2^(k - 1), sticky,
               e + k - 2)

AddLimbs(a_hi, a_lo, bs, e) ==
    AddDrop(a_hi + bs.hi + (a_lo + bs.lo) \div Limb, (a_lo + bs.lo) % Limb,
            IF a_hi + bs.hi + (a_lo + bs.lo) \div Limb >= 2^27 THEN 3 ELSE 2,
            bs.sticky, e)

\* a + b for a.e >= b.e: both mantissas times 4, b's aligned to a's exponent
AddAligned(a, b) ==
    AddLimbs(a.hi * 4 + (a.lo * 4) \div Limb, (a.lo * 4) % Limb,
             ShiftRightSticky(b.hi * 4 + (b.lo * 4) \div Limb,
                              (b.lo * 4) % Limb, a.e - b.e),
             a.e)

\* x + y of two non-negative doubles, rounded to nearest, ties to even
float_add(x, y) ==
    IF x = FloatZero THEN y
    ELSE IF y = FloatZero THEN x
    ELSE IF x.e >= y.e THEN AddAligned(x, y)
    ELSE AddAligned(y, x)

\* the whole part of a double below 2^28 against n
WholeAbove(whole, n) ==
    \/ whole.hi > 0
    \/ whole.lo > n
    \/ whole.lo = n /\ whole.sticky

\* x > n for a double x and an int n >= 0
float_gt_int(x, n) ==
    IF x = FloatZero THEN FALSE
    ELSE IF x.e >= 0 THEN TRUE
    ELSE WholeAbove(ShiftRightSticky(x.hi, x.lo, 0 - x.e), n)

RECURSIVE BitLength(_)
BitLength(n) == IF n = 0 THEN 0 ELSE 1 + BitLength(n \div 2)

\* binary long division of r / 100 behind a mantissa of n significant bits,
\* one bit per round up to 53 bits, then rounding on the rest
RECURSIVE DecimalBits(_, _, _, _, _)
DecimalBits(hi, lo, n, r, e) ==
    LET bit == IF 2 * r >= 100 THEN 1 ELSE 0
        rest == 2 * r - 100 * bit
    IN IF n = 53
       THEN RoundedMantissa(hi, lo, e,
                            bit = 1 /\ (rest # 0 \/ lo % 2 = 1))
       ELSE DecimalBits(2 * hi + (2 * lo + bit) \div Limb,
                        (2 * lo + bit) % Limb,
                        IF n > 0 \/ bit = 1 THEN n + 1 ELSE 0,
                        rest, e - 1)

\* the double json.loads returns for the number written as h hundredths
\* (0 <= h < 2^28 * 100): the double nearest to h / 100
json_number(h) ==
    IF h = 0 THEN FloatZero
    ELSE DecimalBits(0, h \div 100, BitLength(h \div 100), h % 100, 0)

----------------------------------------------------------------------------
(* Python str                                                              *)
(*                                                                         *)
(* A str is the sequence of its code points, 0 to 1114111.  The case and   *)
(* digit tables are those of Unicode 14.0, which CPython 3.11 carries.     *)

\* the characters of the code points 32 to 95 and 97 to 126 (a string
\* literal cannot hold the grave accent, 96)
AsciiTo95 ==
    " !\"#$%&'()*+,-./0123456789:;<=>?@ABCDEFGHIJKLMNOPQRSTUVWXYZ[\\]^_"

AsciiFrom97 == "abcdefghijklmnopqrstuvwxyz{|}~"

\* ord() of a printable ASCII character
ord(c) ==
    IF \E n \in 1..64 : SubSeq(AsciiTo95, n, n) = c
    THEN 31 + CHOOSE n \in 1..64 : SubSeq(AsciiTo95, n, n) = c
    ELSE 96 + CHOOSE n \in 1..30 : SubSeq(AsciiFrom97, n, n) = c

\* the str a literal of printable ASCII characters denotes
Str(text) == [k \in 1..Len(text) |-> ord(SubSeq(text, k, k))]

\* c lies in one of the ranges, each a pair of its first and last member
InRanges(c, ranges) ==
    \E k \in 1..Len(ranges) : ranges[k][1] <= c /\ c <= ranges[k][2]

\* the full lower-case mapping of one code point
ToLowerFull(c) ==
    IF c < 128
    THEN IF 65 <= c /\ c <= 90 THEN << c + 32 >> ELSE << c >>
    ELSE
        CASE 192 <= c /\ c <= 214 -> << c + 32 >>
          [] 216 <= c /\ c <= 222 -> << c + 32 >>
          [] 256 <= c /\ c <= 302 /\ c % 2 = 0 -> << c + 1 >>
          [] c = 304 -> << 105, 775 >>
          [] 306 <= c /\ c <= 310 /\ c % 2 = 0 -> << c + 1 >>
          [] 313 <= c /\ c <= 327 /\ c % 2 = 1 -> << c + 1 >>
          [] 330 <= c /\ c <= 374 /\ c % 2 = 0 -> << c + 1 >>
          [] c = 376 -> << c - 121 >>
          [] 377 <= c /\ c <= 381 /\ c % 2 = 1 -> << c + 1 >>
          [] c = 385 -> << c + 210 >>
          [] 386 <= c /\ c <= 388 /\ c % 2 = 0 -> << c + 1 >>
          [] c = 390 -> << c + 206 >>
          [] c = 391 -> << c + 1 >>
          [] 393 <= c /\ c <= 394 -> << c + 205 >>
          [] c = 395 -> << c + 1 >>
          [] c = 398 -> << c + 79 >>
          [] c = 399 -> << c + 202 >>
          [] c = 400 -> << c + 203 >>
          [] c = 401 -> << c + 1 >>
          [] c = 403 -> << c + 205 >>
          [] c = 404 -> << c + 207 >>
          [] c = 406 -> << c + 211 >>
          [] c = 407 -> << c + 209 >>
          [] c = 408 -> << c + 1 >>
          [] c = 412 -> << c + 211 >>
          [] c = 413 -> << c + 213 >>
          [] c = 415 -> << c + 214 >>
          [] 416 <= c /\ c <= 420 /\ c % 2 = 0 -> << c + 1 >>
          [] c = 422 -> << c + 218 >>
          [] c = 423 -> << c + 1 >>
          [] c = 425 -> << c + 218 >>
          [] c = 428 -> << c + 1 >>
          [] c = 430 -> << c + 218 >>
          [] c = 431 -> << c + 1 >>
          [] 433 <= c /\ c <= 434 -> << c + 217 >>
          [] 435 <= c /\ c <= 437 /\ c % 2 = 1 -> << c + 1 >>
          [] c = 439 -> << c + 219 >>
          [] c = 440 -> << c + 1 >>
          [] c = 444 -> << c + 1 >>
          [] c = 452 -> << c + 2 >>
          [] c = 453 -> << c + 1 >>
          [] c = 455 -> << c + 2 >>
          [] c = 456 -> << c + 1 >>
          [] c = 458 -> << c + 2 >>
          [] 459 <= c /\ c <= 475 /\ c % 2 = 1 -> << c + 1 >>
          [] 478 <= c /\ c <= 494 /\ c % 2 = 0 -> << c + 1 >>
          [] c = 497 -> << c + 2 >>
          [] 498 <= c /\ c <= 500 /\ c % 2 = 0 -> << c + 1 >>
          [] c = 502 -> << c - 97 >>
          [] c = 503 -> << c - 56 >>
          [] 504 <= c /\ c <= 542 /\ c % 2 = 0 -> << c + 1 >>
          [] c = 544 -> << c - 130 >>
          [] 546 <= c /\ c <= 562 /\ c % 2 = 0 -> << c + 1 >>
          [] c = 570 -> << c + 10795 >>
          [] c = 571 -> << c + 1 >>
          [] c = 573 -> << c - 163 >>
          [] c = 574 -> << c + 10792 >>
          [] c = 577 -> << c + 1 >>
          [] c = 579 -> << c - 195 >>
          [] c = 580 -> << c + 69 >>
          [] c = 581 -> << c + 71 >>
          [] 582 <= c /\ c <= 590 /\ c % 2 = 0 -> << c + 1 >>
          [] 880 <= c /\ c <= 882 /\ c % 2 = 0 -> << c + 1 >>
          [] c = 886 -> << c + 1 >>
          [] c = 895 -> << c + 116 >>
          [] c = 902 -> << c + 38 >>
          [] 904 <= c /\ c <= 906 -> << c + 37 >>
          [] c = 908 -> << c + 64 >>
          [] 910 <= c /\ c <= 911 -> << c + 63 >>
          [] 913 <= c /\ c <= 929 -> << c + 32 >>
          [] 931 <= c /\ c <= 939 -> << c + 32 >>
          [] c = 975 -> << c + 8 >>
          [] 984 <= c /\ c <= 1006 /\ c % 2 = 0 -> << c + 1 >>
          [] c = 1012 -> << c - 60 >>
          [] c = 1015 -> << c + 1 >>
          [] c = 1017 -> << c - 7 >>
          [] c = 1018 -> << c + 1 >>
          [] 1021 <= c /\ c <= 1023 -> << c - 130 >>
          [] 1024 <= c /\ c <= 1039 -> << c + 80 >>
          [] 1040 <= c /\ c <= 1071 -> << c + 32 >>
          [] 1120 <= c /\ c <= 1152 /\ c % 2 = 0 -> << c + 1 >>
          [] 1162 <= c /\ c <= 1214 /\ c % 2 = 0 -> << c + 1 >>
          [] c = 1216 -> << c + 15 >>
          [] 1217 <= c /\ c <= 1229 /\ c % 2 = 1 -> << c + 1 >>
          [] 1232 <= c /\ c <= 1326 /\ c % 2 = 0 -> << c + 1 >>
          [] 1329 <= c /\ c <= 1366 -> << c + 48 >>
          [] 4256 <= c /\ c <= 4293 -> << c + 7264 >>
          [] c = 4295 -> << c + 7264 >>
          [] c = 4301 -> << c + 7264 >>
          [] 5024 <= c /\ c <= 5103 -> << c + 38864 >>
          [] 5104 <= c /\ c <= 5109 -> << c + 8 >>
          [] 7312 <= c /\ c <= 7354 -> << c - 3008 >>
          [] 7357 <= c /\ c <= 7359 -> << c - 3008 >>
          [] 7680 <= c /\ c <= 7828 /\ c % 2 = 0 -> << c + 1 >>
          [] c = 7838 -> << c - 7615 >>
          [] 7840 <= c /\ c <= 7934 /\ c % 2 = 0 -> << c + 1 >>
          [] 7944 <= c /\ c <= 7951 -> << c - 8 >>
          [] 7960 <= c /\ c <= 7965 -> << c - 8 >>
          [] 7976 <= c /\ c <= 7983 -> << c - 8 >>
          [] 7992 <= c /\ c <= 7999 -> << c - 8 >>
          [] 8008 <= c /\ c <= 8013 -> << c - 8 >>
          [] 8025 <= c /\ c <= 8031 /\ c % 2 = 1 -> << c - 8 >>
          [] 8040 <= c /\ c <= 8047 -> << c - 8 >>
          [] 8072 <= c /\ c <= 8079 -> << c - 8 >>
          [] 8088 <= c /\ c <= 8095 -> << c - 8 >>
          [] 8104 <= c /\ c <= 8111 -> << c - 8 >>
          [] 8120 <= c /\ c <= 8121 -> << c - 8 >>
          [] 8122 <= c /\ c <= 8123 -> << c - 74 >>
          [] c = 8124 -> << c - 9 >>
          [] 8136 <= c /\ c <= 8139 -> << c - 86 >>
          [] c = 8140 -> << c - 9 >>
          [] 8152 <= c /\ c <= 8153 -> << c - 8 >>
          [] 8154 <= c /\ c <= 8155 -> << c - 100 >>
          [] 8168 <= c /\ c <= 8169 -> << c - 8 >>
          [] 8170 <= c /\ c <= 8171 -> << c - 112 >>
          [] c = 8172 -> << c - 7 >>
          [] 8184 <= c /\ c <= 8185 -> << c - 128 >>
          [] 8186 <= c /\ c <= 8187 -> << c - 126 >>
          [] c = 8188 -> << c - 9 >>
          [] c = 8486 -> << c - 7517 >>
          [] c = 8490 -> << c - 8383 >>
          [] c = 8491 -> << c - 8262 >>
          [] c = 8498 -> << c + 28 >>
          [] 8544 <= c /\ c <= 8559 -> << c + 16 >>
          [] c = 8579 -> << c + 1 >>
          [] 9398 <= c /\ c <= 9423 -> << c + 26 >>
          [] 11264 <= c /\ c <= 11311 -> << c + 48 >>
          [] c = 11360 -> << c + 1 >>
          [] c = 11362 -> << c - 10743 >>
          [] c = 11363 -> << c - 3814 >>
          [] c = 11364 -> << c - 10727 >>
          [] 11367 <= c /\ c <= 11371 /\ c % 2 = 1 -> << c + 1 >>
          [] c = 11373 -> << c - 10780 >>
          [] c = 11374 -> << c - 10749 >>
          [] c = 11375 -> << c - 10783 >>
          [] c = 11376 -> << c - 10782 >>
          [] c = 11378 -> << c + 1 >>
          [] c = 11381 -> << c + 1 >>
          [] 11390 <= c /\ c <= 11391 -> << c - 10815 >>
          [] 11392 <= c /\ c <= 11490 /\ c % 2 = 0 -> << c + 1 >>
          [] 11499 <= c /\ c <= 11501 /\ c % 2 = 1 -> << c + 1 >>
          [] c = 11506 -> << c + 1 >>
          [] 42560 <= c /\ c <= 42604 /\ c % 2 = 0 -> << c + 1 >>
          [] 42624 <= c /\ c <= 42650 /\ c % 2 = 0 -> << c + 1 >>
          [] 42786 <= c /\ c <= 42798 /\ c % 2 = 0 -> << c + 1 >>
          [] 42802 <= c /\ c <= 42862 /\ c % 2 = 0 -> << c + 1 >>
          [] 42873 <= c /\ c <= 42875 /\ c % 2 = 1 -> << c + 1 >>
          [] c = 42877 -> << c - 35332 >>
          [] 42878 <= c /\ c <= 42886 /\ c % 2 = 0 -> << c + 1 >>
          [] c = 42891 -> << c + 1 >>
          [] c = 42893 -> << c - 42280 >>
          [] 42896 <= c /\ c <= 42898 /\ c % 2 = 0 -> << c + 1 >>
          [] 42902 <= c /\ c <= 42920 /\ c % 2 = 0 -> << c + 1 >>
          [] c = 42922 -> << c - 42308 >>
          [] c = 42923 -> << c - 42319 >>
          [] c = 42924 -> << c - 42315 >>
          [] c = 42925 -> << c - 42305 >>
          [] c = 42926 -> << c - 42308 >>
          [] c = 42928 -> << c - 42258 >>
          [] c = 42929 -> << c - 42282 >>
          [] c = 42930 -> << c - 42261 >>
          [] c = 42931 -> << c + 928 >>
          [] 42932 <= c /\ c <= 42946 /\ c % 2 = 0 -> << c + 1 >>
          [] c = 42948 -> << c - 48 >>
          [] c = 42949 -> << c - 42307 >>
          [] c = 42950 -> << c - 35384 >>
          [] 42951 <= c /\ c <= 42953 /\ c % 2 = 1 -> << c + 1 >>
          [] c = 42960 -> << c + 1 >>
          [] 42966 <= c /\ c <= 42968 /\ c % 2 = 0 -> << c + 1 >>
          [] c = 42997 -> << c + 1 >>
          [] 65313 <= c /\ c <= 65338 -> << c + 32 >>
          [] 66560 <= c /\ c <= 66599 -> << c + 40 >>
          [] 66736 <= c /\ c <= 66771 -> << c + 40 >>
          [] 66928 <= c /\ c <= 66938 -> << c + 39 >>
          [] 66940 <= c /\ c <= 66954 -> << c + 39 >>
          [] 66956 <= c /\ c <= 66962 -> << c + 39 >>
          [] 66964 <= c /\ c <= 66965 -> << c + 39 >>
          [] 68736 <= c /\ c <= 68786 -> << c + 64 >>
          [] 71840 <= c /\ c <= 71871 -> << c + 32 >>
          [] 93760 <= c /\ c <= 93791 -> << c + 32 >>
          [] 125184 <= c /\ c <= 125217 -> << c + 34 >>
          [] OTHER -> << c >>

\* the code points with the property Cased
CasedRanges ==
    << <<65, 90>>, <<97, 122>>, <<170, 170>>, <<181, 181>>, <<186, 186>>,
       <<192, 214>>, <<216, 246>>, <<248, 442>>, <<444, 447>>, <<452, 659>>,
       <<661, 696>>, <<704, 705>>, <<736, 740>>, <<837, 837>>, <<880, 883>>,
       <<886, 887>>, <<890, 893>>, <<895, 895>>, <<902, 902>>, <<904, 906>>,
       <<908, 908>>, <<910, 929>>, <<931, 1013>>, <<1015, 1153>>,
       <<1162, 1327>>, <<1329, 1366>>, <<1376, 1416>>, <<4256, 4293>>,
       <<4295, 4295>>, <<4301, 4301>>, <<4304, 4346>>, <<4349, 4351>>,
       <<5024, 5109>>, <<5112, 5117>>, <<7296, 7304>>, <<7312, 7354>>,
       <<7357, 7359>>, <<7424, 7615>>, <<7680, 7957>>, <<7960, 7965>>,
       <<7968, 8005>>, <<8008, 8013>>, <<8016, 8023>>, <<8025, 8025>>,
       <<8027, 8027>>, <<8029, 8029>>, <<8031, 8061>>, <<8064, 8116>>,
       <<8118, 8124>>, <<8126, 8126>>, <<8130, 8132>>, <<8134, 8140>>,
       <<8144, 8147>>, <<8150, 8155>>, <<8160, 8172>>, <<8178, 8180>>,
       <<8182, 8188>>, <<8305, 8305>>, <<8319, 8319>>, <<8336, 8348>>,
       <<8450, 8450>>, <<8455, 8455>>, <<8458, 8467>>, <<8469, 8469>>,
       <<8473, 8477>>, <<8484, 8484>>, <<8486, 8486>>, <<8488, 8488>>,
       <<8490, 8493>>, <<8495, 8500>>, <<8505, 8505>>, <<8508, 8511>>,
       <<8517, 8521>>, <<8526, 8526>>, <<8544, 8575>>, <<8579, 8580>>,
       <<9398, 9449>>, <<11264, 11492>>, <<11499, 11502>>, <<11506, 11507>>,
       <<11520, 11557>>, <<11559, 11559>>, <<11565, 11565>>,
       <<42560, 42605>>, <<42624, 42653>>, <<42786, 42887>>,
       <<42891, 42894>>, <<42896, 42954>>, <<42960, 42961>>,
       <<42963, 42963>>, <<42965, 42969>>, <<42997, 42998>>,
       <<43000, 43002>>, <<43824, 43866>>, <<43868, 43880>>,
       <<43888, 43967>>, <<64256, 64262>>, <<64275, 64279>>,
       <<65313, 65338>>, <<65345, 65370>>, <<66560, 66639>>,
       <<66736, 66771>>, <<66776, 66811>>, <<66928, 66938>>,
       <<66940, 66954>>, <<66956, 66962>>, <<66964, 66965>>,
       <<66967, 66977>>, <<66979, 66993>>, <<66995, 67001>>,
       <<67003, 67004>>, <<67456, 67456>>, <<67459, 67461>>,
       <<67463, 67504>>, <<67506, 67514>>, <<68736, 68786>>,
       <<68800, 68850>>, <<71840, 71903>>, <<93760, 93823>>,
       <<119808, 119892>>, <<119894, 119964>>, <<119966, 119967>>,
       <<119970, 119970>>, <<119973, 119974>>, <<119977, 119980>>,
       <<119982, 119993>>, <<119995, 119995>>, <<119997, 120003>>,
       <<120005, 120069>>, <<120071, 120074>>, <<120077, 120084>>,
       <<120086, 120092>>, <<120094, 120121>>, <<120123, 120126>>,
       <<120128, 120132>>, <<120134, 120134>>, <<120138, 120144>>,
       <<120146, 120485>>, <<120488, 120512>>, <<120514, 120538>>,
       <<120540, 120570>>, <<120572, 120596>>, <<120598, 120628>>,
       <<120630, 120654>>, <<120656, 120686>>, <<120688, 120712>>,
       <<120714, 120744>>, <<120746, 120770>>, <<120772, 120779>>,
       <<122624, 122633>>, <<122635, 122654>>, <<125184, 125251>>,
       <<127280, 127305>>, <<127312, 127337>>, <<127344, 127369>> >>

\* the code points with the property Case_Ignorable
CaseIgnorableRanges ==
    << <<39, 39>>, <<46, 46>>, <<58, 58>>, <<94, 94>>, <<96, 96>>,
       <<168, 168>>, <<173, 173>>, <<175, 175>>, <<180, 180>>, <<183, 184>>,
       <<688, 879>>, <<884, 885>>, <<890, 890>>, <<900, 901>>, <<903, 903>>,
       <<1155, 1161>>, <<1369, 1369>>, <<1375, 1375>>, <<1425, 1469>>,
       <<1471, 1471>>, <<1473, 1474>>, <<1476, 1477>>, <<1479, 1479>>,
       <<1524, 1524>>, <<1536, 1541>>, <<1552, 1562>>, <<1564, 1564>>,
       <<1600, 1600>>, <<1611, 1631>>, <<1648, 1648>>, <<1750, 1757>>,
       <<1759, 1768>>, <<1770, 1773>>, <<1807, 1807>>, <<1809, 1809>>,
       <<1840, 1866>>, <<1958, 1968>>, <<2027, 2037>>, <<2042, 2042>>,
       <<2045, 2045>>, <<2070, 2093>>, <<2137, 2139>>, <<2184, 2184>>,
       <<2192, 2193>>, <<2200, 2207>>, <<2249, 2306>>, <<2362, 2362>>,
       <<2364, 2364>>, <<2369, 2376>>, <<2381, 2381>>, <<2385, 2391>>,
       <<2402, 2403>>, <<2417, 2417>>, <<2433, 2433>>, <<2492, 2492>>,
       <<2497, 2500>>, <<2509, 2509>>, <<2530, 2531>>, <<2558, 2558>>,
       <<2561, 2562>>, <<2620, 2620>>, <<2625, 2626>>, <<2631, 2632>>,
       <<2635, 2637>>, <<2641, 2641>>, <<2672, 2673>>, <<2677, 2677>>,
       <<2689, 2690>>, <<2748, 2748>>, <<2753, 2757>>, <<2759, 2760>>,
       <<2765, 2765>>, <<2786, 2787>>, <<2810, 2815>>, <<2817, 2817>>,
       <<2876, 2876>>, <<2879, 2879>>, <<2881, 2884>>, <<2893, 2893>>,
       <<2901, 2902>>, <<2914, 2915>>, <<2946, 2946>>, <<3008, 3008>>,
       <<3021, 3021>>, <<3072, 3072>>, <<3076, 3076>>, <<3132, 3132>>,
       <<3134, 3136>>, <<3142, 3144>>, <<3146, 3149>>, <<3157, 3158>>,
       <<3170, 3171>>, <<3201, 3201>>, <<3260, 3260>>, <<3263, 3263>>,
       <<3270, 3270>>, <<3276, 3277>>, <<3298, 3299>>, <<3328, 3329>>,
       <<3387, 3388>>, <<3393, 3396>>, <<3405, 3405>>, <<3426, 3427>>,
       <<3457, 3457>>, <<3530, 3530>>, <<3538, 3540>>, <<3542, 3542>>,
       <<3633, 3633>>, <<3636, 3642>>, <<3654, 3662>>, <<3761, 3761>>,
       <<3764, 3772>>, <<3782, 3782>>, <<3784, 3789>>, <<3864, 3865>>,
       <<3893, 3893>>, <<3895, 3895>>, <<3897, 3897>>, <<3953, 3966>>,
       <<3968, 3972>>, <<3974, 3975>>, <<3981, 3991>>, <<3993, 4028>>,
       <<4038, 4038>>, <<4141, 4144>>, <<4146, 4151>>, <<4153, 4154>>,
       <<4157, 4158>>, <<4184, 4185>>, <<4190, 4192>>, <<4209, 4212>>,
       <<4226, 4226>>, <<4229, 4230>>, <<4237, 4237>>, <<4253, 4253>>,
       <<4348, 4348>>, <<4957, 4959>>, <<5906, 5908>>, <<5938, 5939>>,
       <<5970, 5971>>, <<6002, 6003>>, <<6068, 6069>>, <<6071, 6077>>,
       <<6086, 6086>>, <<6089, 6099>>, <<6103, 6103>>, <<6109, 6109>>,
       <<6155, 6159>>, <<6211, 6211>>, <<6277, 6278>>, <<6313, 6313>>,
       <<6432, 6434>>, <<6439, 6440>>, <<6450, 6450>>, <<6457, 6459>>,
       <<6679, 6680>>, <<6683, 6683>>, <<6742, 6742>>, <<6744, 6750>>,
       <<6752, 6752>>, <<6754, 6754>>, <<6757, 6764>>, <<6771, 6780>>,
       <<6783, 6783>>, <<6823, 6823>>, <<6832, 6862>>, <<6912, 6915>>,
       <<6964, 6964>>, <<6966, 6970>>, <<6972, 6972>>, <<6978, 6978>>,
       <<7019, 7027>>, <<7040, 7041>>, <<7074, 7077>>, <<7080, 7081>>,
       <<7083, 7085>>, <<7142, 7142>>, <<7144, 7145>>, <<7149, 7149>>,
       <<7151, 7153>>, <<7212, 7219>>, <<7222, 7223>>, <<7288, 7293>>,
       <<7376, 7378>>, <<7380, 7392>>, <<7394, 7400>>, <<7405, 7405>>,
       <<7412, 7412>>, <<7416, 7417>>, <<7468, 7530>>, <<7544, 7544>>,
       <<7579, 7679>>, <<8125, 8125>>, <<8127, 8129>>, <<8141, 8143>>,
       <<8157, 8159>>, <<8173, 8175>>, <<8189, 8190>>, <<8203, 8207>>,
       <<8216, 8217>>, <<8228, 8228>>, <<8231, 8231>>, <<8234, 8238>>,
       <<8288, 8292>>, <<8294, 8303>>, <<8305, 8305>>, <<8319, 8319>>,
       <<8336, 8348>>, <<8400, 8432>>, <<11388, 11389>>, <<11503, 11505>>,
       <<11631, 11631>>, <<11647, 11647>>, <<11744, 11775>>,
       <<11823, 11823>>, <<12293, 12293>>, <<12330, 12333>>,
       <<12337, 12341>>, <<12347, 12347>>, <<12441, 12446>>,
       <<12540, 12542>>, <<40981, 40981>>, <<42232, 42237>>,
       <<42508, 42508>>, <<42607, 42610>>, <<42612, 42621>>,
       <<42623, 42623>>, <<42652, 42655>>, <<42736, 42737>>,
       <<42752, 42785>>, <<42864, 42864>>, <<42888, 42890>>,
       <<42994, 42996>>, <<43000, 43001>>, <<43010, 43010>>,
       <<43014, 43014>>, <<43019, 43019>>, <<43045, 43046>>,
       <<43052, 43052>>, <<43204, 43205>>, <<43232, 43249>>,
       <<43263, 43263>>, <<43302, 43309>>, <<43335, 43345>>,
       <<43392, 43394>>, <<43443, 43443>>, <<43446, 43449>>,
       <<43452, 43453>>, <<43471, 43471>>, <<43493, 43494>>,
       <<43561, 43566>>, <<43569, 43570>>, <<43573, 43574>>,
       <<43587, 43587>>, <<43596, 43596>>, <<43632, 43632>>,
       <<43644, 43644>>, <<43696, 43696>>, <<43698, 43700>>,
       <<43703, 43704>>, <<43710, 43711>>, <<43713, 43713>>,
       <<43741, 43741>>, <<43756, 43757>>, <<43763, 43764>>,
       <<43766, 43766>>, <<43867, 43871>>, <<43881, 43883>>,
       <<44005, 44005>>, <<44008, 44008>>, <<44013, 44013>>,
       <<64286, 64286>>, <<64434, 64450>>, <<65024, 65039>>,
       <<65043, 65043>>, <<65056, 65071>>, <<65106, 65106>>,
       <<65109, 65109>>, <<65279, 65279>>, <<65287, 65287>>,
       <<65294, 65294>>, <<65306, 65306>>, <<65342, 65342>>,
       <<65344, 65344>>, <<65392, 65392>>, <<65438, 65439>>,
       <<65507, 65507>>, <<65529, 65531>>, <<66045, 66045>>,
       <<66272, 66272>>, <<66422, 66426>>, <<67456, 67461>>,
       <<67463, 67504>>, <<67506, 67514>>, <<68097, 68099>>,
       <<68101, 68102>>, <<68108, 68111>>, <<68152, 68154>>,
       <<68159, 68159>>, <<68325, 68326>>, <<68900, 68903>>,
       <<69291, 69292>>, <<69446, 69456>>, <<69506, 69509>>,
       <<69633, 69633>>, <<69688, 69702>>, <<69744, 69744>>,
       <<69747, 69748>>, <<69759, 69761>>, <<69811, 69814>>,
       <<69817, 69818>>, <<69821, 69821>>, <<69826, 69826>>,
       <<69837, 69837>>, <<69888, 69890>>, <<69927, 69931>>,
       <<69933, 69940>>, <<70003, 70003>>, <<70016, 70017>>,
       <<70070, 70078>>, <<70089, 70092>>, <<70095, 70095>>,
       <<70191, 70193>>, <<70196, 70196>>, <<70198, 70199>>,
       <<70206, 70206>>, <<70367, 70367>>, <<70371, 70378>>,
       <<70400, 70401>>, <<70459, 70460>>, <<70464, 70464>>,
       <<70502, 70508>>, <<70512, 70516>>, <<70712, 70719>>,
       <<70722, 70724>>, <<70726, 70726>>, <<70750, 70750>>,
       <<70835, 70840>>, <<70842, 70842>>, <<70847, 70848>>,
       <<70850, 70851>>, <<71090, 71093>>, <<71100, 71101>>,
       <<71103, 71104>>, <<71132, 71133>>, <<71219, 71226>>,
       <<71229, 71229>>, <<71231, 71232>>, <<71339, 71339>>,
       <<71341, 71341>>, <<71344, 71349>>, <<71351, 71351>>,
       <<71453, 71455>>, <<71458, 71461>>, <<71463, 71467>>,
       <<71727, 71735>>, <<71737, 71738>>, <<71995, 71996>>,
       <<71998, 71998>>, <<72003, 72003>>, <<72148, 72151>>,
       <<72154, 72155>>, <<72160, 72160>>, <<72193, 72202>>,
       <<72243, 72248>>, <<72251, 72254>>, <<72263, 72263>>,
       <<72273, 72278>>, <<72281, 72283>>, <<72330, 72342>>,
       <<72344, 72345>>, <<72752, 72758>>, <<72760, 72765>>,
       <<72767, 72767>>, <<72850, 72871>>, <<72874, 72880>>,
       <<72882, 72883>>, <<72885, 72886>>, <<73009, 73014>>,
       <<73018, 73018>>, <<73020, 73021>>, <<73023, 73029>>,
       <<73031, 73031>>, <<73104, 73105>>, <<73109, 73109>>,
       <<73111, 73111>>, <<73459, 73460>>, <<78896, 78904>>,
       <<92912, 92916>>, <<92976, 92982>>, <<92992, 92995>>,
       <<94031, 94031>>, <<94095, 94111>>, <<94176, 94177>>,
       <<94179, 94180>>, <<110576, 110579>>, <<110581, 110587>>,
       <<110589, 110590>>, <<113821, 113822>>, <<113824, 113827>>,
       <<118528, 118573>>, <<118576, 118598>>, <<119143, 119145>>,
       <<119155, 119170>>, <<119173, 119179>>, <<119210, 119213>>,
       <<119362, 119364>>, <<121344, 121398>>, <<121403, 121452>>,
       <<121461, 121461>>, <<121476, 121476>>, <<121499, 121503>>,
       <<121505, 121519>>, <<122880, 122886>>, <<122888, 122904>>,
       <<122907, 122913>>, <<122915, 122916>>, <<122918, 122922>>,
       <<123184, 123197>>, <<123566, 123566>>, <<123628, 123631>>,
       <<125136, 125142>>, <<125252, 125259>>, <<127995, 127999>>,
       <<917505, 917505>>, <<917536, 917631>>, <<917760, 917999>> >>

IsCased(c) == InRanges(c, CasedRanges)

IsCaseIgnorable(c) == InRanges(c, CaseIgnorableRanges)

\* the lower case of the capital sigma at position i: the final form
\* after a cased letter when no cased letter follows, case-ignorable code
\* points skipped on both sides
handle_capital_sigma(name, i) ==
    LET Before == { j \in 1..(i - 1) : ~IsCaseIgnorable(name[j]) }
        After == { j \in (i + 1)..Len(name) : ~IsCaseIgnorable(name[j]) }
    IN IF /\ Before # {}
          /\ IsCased(name[CHOOSE j \in Before : \A h \in Before : h <= j])
          /\ \/ After = {}
             \/ ~IsCased(name[CHOOSE j \in After : \A h \in After : j <= h])
       THEN 962 ELSE 963

\* str.lower()
lower(name) ==
    Flatten([k \in 1..Len(name) |->
               IF name[k] = 931 THEN << handle_capital_sigma(name, k) >>
               ELSE ToLowerFull(name[k])])

\* the decimal digits (category Nd), in runs of ten from 0 to 9
DecimalRanges ==
    << <<48, 57>>, <<1632, 1641>>, <<1776, 1785>>, <<1984, 1993>>,
       <<2406, 2415>>, <<2534, 2543>>, <<2662, 2671>>, <<2790, 2799>>,
       <<2918, 2927>>, <<3046, 3055>>, <<3174, 3183>>, <<3302, 3311>>,
       <<3430, 3439>>, <<3558, 3567>>, <<3664, 3673>>, <<3792, 3801>>,
       <<3872, 3881>>, <<4160, 4169>>, <<4240, 4249>>, <<6112, 6121>>,
       <<6160, 6169>>, <<6470, 6479>>, <<6608, 6617>>, <<6784, 6793>>,
       <<6800, 6809>>, <<6992, 7001>>, <<7088, 7097>>, <<7232, 7241>>,
       <<7248, 7257>>, <<42528, 42537>>, <<43216, 43225>>, <<43264, 43273>>,
       <<43472, 43481>>, <<43504, 43513>>, <<43600, 43609>>,
       <<44016, 44025>>, <<65296, 65305>>, <<66720, 66729>>,
       <<68912, 68921>>, <<69734, 69743>>, <<69872, 69881>>,
       <<69942, 69951>>, <<70096, 70105>>, <<70384, 70393>>,
       <<70736, 70745>>, <<70864, 70873>>, <<71248, 71257>>,
       <<71360, 71369>>, <<71472, 71481>>, <<71904, 71913>>,
       <<72016, 72025>>, <<72784, 72793>>, <<73040, 73049>>,
       <<73120, 73129>>, <<92768, 92777>>, <<92864, 92873>>,
       <<93008, 93017>>, <<120782, 120831>>, <<123200, 123209>>,
       <<123632, 123641>>, <<125264, 125273>>, <<130032, 130041>> >>

\* what \d of a str pattern matches
IsDecimal(c) == InRanges(c, DecimalRanges)

\* the digit a decimal code point stands for
DecimalDigit(c) ==
    LET k == CHOOSE h \in 1..Len(DecimalRanges) :
                 DecimalRanges[h][1] <= c /\ c <= DecimalRanges[h][2]
    IN (c - DecimalRanges[k][1]) % 10

----------------------------------------------------------------------------
(* Data model                                                              *)

Topic(name, pages) == [name |-> name, pages |-> pages]

Course(code, midterm_date, midterm_weight, topics, total_pages) ==
    [code |-> code, midterm_date |-> midterm_date,
     midterm_weight |-> midterm_weight, topics |-> topics,
     total_pages |-> total_pages]

UserPreferences(max_hours_per_day, rest_days) ==
    [max_hours_per_day |-> max_hours_per_day, rest_days |-> rest_days]

ParserOutput(courses, preferences) ==
    [courses |-> courses, preferences |-> preferences]

Session(course, topic, hours, type) ==
    [course |-> course, topic |-> topic, hours |-> hours, type |-> type]

Day(date, sessions) == [date |-> date, sessions |-> sessions]

\* every (date, session) of a candidate, in the order the code visits them
DatedSessions(sched) ==
    Flatten([i \in 1..Len(sched) |->
               [j \in 1..Len(sched[i].sessions) |->
                  [date |-> sched[i].date, s |-> sched[i].sessions[j]]]])

\* an issue string: its leading tag and the details the text carries
Issue(tag, rule, course, topic, date, num, names, dates) ==
    [tag |-> tag, rule |-> rule, course |-> course, topic |-> topic,
     date |-> date, num |-> num, names |-> names, dates |-> dates]

\* a prefix test that accepts every issue
startswith_Any(issue, prefix) == issue.tag \in {"ERROR", "WARNING"}

\* a prefix test that looks for ERROR whatever prefix is asked for
startswith_IgnorePrefix(issue, prefix) == issue.tag = "ERROR"

startswith(issue, prefix) == issue.tag = prefix

----------------------------------------------------------------------------
(* ScheduleValidator: src/agents/validator.py                              *)

\* sum(s["hours"] for s in day["sessions"]): from 0, left to right, one
\* rounded addition per session
RECURSIVE SumLoop(_, _)
SumLoop(sessions, total) ==
    IF sessions = << >> THEN total
    ELSE SumLoop(Tail(sessions), float_add(total, Head(sessions).hours))

SumHours(sessions) == SumLoop(sessions, FloatZero)

\* Check 1.  The result carries exc = "TypeError" when the comparison
\* total > max_hours is reached with max_hours = None.
RECURSIVE DailyHoursLoop(_, _, _)
DailyHoursLoop(days, max_hours, issues) ==
    IF days = << >> THEN [exc |-> "", issues |-> issues]
    ELSE LET day == Head(days)
             total == SumHours(day.sessions)
         IN IF float_gt_int(total, 8)
            THEN DailyHoursLoop(Tail(days), max_hours,
                   Append(issues, Issue("ERROR", "daily_hours", "", "",
                                        day.date, total, {}, {})))
            ELSE IF ~IsSome(max_hours)
            THEN [exc |-> "TypeError", issues |-> issues]
            ELSE IF float_gt_int(total, Val(max_hours))
            THEN DailyHoursLoop(Tail(days), max_hours,
                   Append(issues, Issue("WARNING", "daily_hours", "", "",
                                        day.date, total, {}, {})))
            ELSE DailyHoursLoop(Tail(days), max_hours, issues)

_check_daily_hours(sched, max_hours) ==
    DailyHoursLoop(sched, max_hours, << >>)

\* Check 2.

\* coverage that counts a session of any type
_check_topic_coverage_AnyType(sched, po) ==
    Flatten([i \in 1..Len(po.courses) |->
        LET course == po.courses[i]
            required == { t.name : t \in Range(course.topics) }
            found == { x.s.topic : x \in { y \in Range(DatedSessions(sched)) :
                                             y.s.course = course.code } }
            missing == required \ found
        IN IF missing # {}
           THEN << Issue("ERROR", "missing_topics", course.code, "",
                         0, 0, missing, {}) >>
           ELSE << >>])

ScheduledLearning(sched, code) ==
    { x.s.topic : x \in { y \in Range(DatedSessions(sched)) :
                            y.s.course = code /\ y.s.type = "learning" } }

_check_topic_coverage(sched, po) ==
    Flatten([i \in 1..Len(po.courses) |->
        LET course == po.courses[i]
            required == { t.name : t \in Range(course.topics) }
            found == ScheduledLearning(sched, course.code)
            missing == required \ found
        IN IF missing # {}
           THEN << Issue("ERROR", "missing_topics", course.code, "",
                         0, 0, missing, {}) >>
           ELSE << >>])

\* Check 3.

\* the exam date itself accepted as a study date
_check_study_before_exam_Strict(sched, po) ==
    Flatten([i \in 1..Len(po.courses) |->
        LET course == po.courses[i]
            code == course.code
            dates == { x.date : x \in { y \in Range(DatedSessions(sched)) :
                                          y.s.course = code } }
        IN IF ~IsSome(course.midterm_date) THEN << >>
           ELSE IF dates = {}
           THEN << Issue("ERROR", "no_sessions", code, "", 0, 0, {}, {}) >>
           ELSE LET midterm_dt == Val(course.midterm_date)
                    violations == { d \in dates : d > midterm_dt }
                    before == { d \in dates : d < midterm_dt }
                    gap == midterm_dt - SetMax(before)
                IN (IF violations # {}
                    THEN << Issue("ERROR", "on_after_exam", code, "",
                                  midterm_dt, 0, {}, violations) >>
                    ELSE << >>)
                   \o
                   (IF before # {} /\ gap > 3
                    THEN << Issue("WARNING", "last_session_gap", code, "",
                                  0, gap, {}, {}) >>
                    ELSE << >>)])

CourseDates(sched, code) ==
    SelectSeq(DatedSessions(sched), LAMBDA x : x.s.course = code)

_check_study_before_exam(sched, po) ==
    Flatten([i \in 1..Len(po.courses) |->
        LET course == po.courses[i]
            code == course.code
            dates == { x.date : x \in Range(CourseDates(sched, code)) }
        IN IF ~IsSome(course.midterm_date) THEN << >>
           ELSE IF dates = {}
           THEN << Issue("ERROR", "no_sessions", code, "", 0, 0, {}, {}) >>
           ELSE LET midterm_dt == Val(course.midterm_date)
                    violations == { d \in dates : d >= midterm_dt }
                    before == { d \in dates : d < midterm_dt }
                    gap == midterm_dt - SetMax(before)
                IN (IF violations # {}
                    THEN << Issue("ERROR", "on_after_exam", code, "",
                                  midterm_dt, 0, {}, violations) >>
                    ELSE << >>)
                   \o
                   (IF before # {} /\ gap > 3
                    THEN << Issue("WARNING", "last_session_gap", code, "",
                                  0, gap, {}, {}) >>
                    ELSE << >>)])

\* Check 4.
TopicSessions(sched, code, name) ==
    SelectSeq(DatedSessions(sched),
              LAMBDA x : x.s.course = code /\ x.s.topic = name)

SpacedRepetitionTopic(sched, code, name) ==
    LET sessions == TopicSessions(sched, code, name)
        learning == SelectSeq(sessions, LAMBDA x : x.s.type = "learning")
        reviews == SelectSeq(sessions,
                       LAMBDA x : x.s.type \in {"review_1", "review_2"})
        gap == reviews[1].date - learning[1].date
    IN IF learning = << >>
       THEN << Issue("ERROR", "no_learning", code, name, 0, 0, {}, {}) >>
       ELSE IF reviews = << >>
       THEN << Issue("WARNING", "no_review", code, name, 0, 0, {}, {}) >>
       ELSE IF gap < 2
       THEN << Issue("WARNING", "review_too_soon", code, name, 0, gap, {}, {}) >>
       ELSE IF gap > 7
       THEN << Issue("WARNING", "review_too_late", code, name, 0, gap, {}, {}) >>
       ELSE << >>

_check_spaced_repetition(sched, po) ==
    Flatten([i \in 1..Len(po.courses) |->
        LET course == po.courses[i]
        IN Flatten([k \in 1..Len(course.topics) |->
               SpacedRepetitionTopic(sched, course.code,
                                     course.topics[k].name)])])

\* CSV rendering: the issue header, then one row per session, the day
\* entries sorted by date (Python's sorted is stable).
NOTES_MAP(type) ==
    CASE type = "learning" -> "Initial learning session"
      [] type = "review_1" -> "First review (spaced repetition)"
      [] type = "review_2" -> "Final review before exam"
      [] OTHER -> ""

RECURSIVE InsertDay(_, _)
InsertDay(sorted, day) ==
    IF sorted = << >> THEN << day >>
    ELSE IF day.date < Head(sorted).date THEN << day >> \o sorted
    ELSE << Head(sorted) >> \o InsertDay(Tail(sorted), day)

RECURSIVE SortedByDate(_)
SortedByDate(sched) ==
    IF sched = << >> THEN << >>
    ELSE InsertDay(SortedByDate(SubSeq(sched, 1, Len(sched) - 1)),
                   sched[Len(sched)])

\* schedule.sort(key=...) in the place of sorted(): the caller's list is
\* put in date order
sorted_schedule_InPlace(sched) ==
    [result |-> SortedByDate(sched), schedule |-> SortedByDate(sched)]

\* sorted(schedule, key=lambda d: d["date"]): a new list in date order;
\* the list passed in keeps its order
sorted_schedule(sched) ==
    [result |-> SortedByDate(sched), schedule |-> sched]

_format_csv(sched, issues) ==
    LET rows == DatedSessions(sorted_schedule(sched).result)
    IN [header |-> issues,
        rows |-> [r \in 1..Len(rows) |->
                    << rows[r].date, rows[r].s.course, rows[r].s.topic,
                       rows[r].s.hours, rows[r].s.type,
                       NOTES_MAP(rows[r].s.type) >>]]

\* run_validator.  Besides what the call returns or raises, the record
\* holds the two argument objects as the call leaves them: the checks
\* only read them (setdefault, add and append act on dicts, sets and lists
\* each check builds itself), all_issues starts as a new empty list in
\* every call, and _format_csv goes through the candidate with sorted().
run_validator(po, sched) ==
    LET c1 == _check_daily_hours(sched, po.preferences.max_hours_per_day)
        all_issues == << >>
                      \o c1.issues
                      \o _check_topic_coverage(sched, po)
                      \o _check_study_before_exam(sched, po)
                      \o _check_spaced_repetition(sched, po)
    IN IF c1.exc # ""
       THEN [exc |-> c1.exc, csv_output |-> _format_csv(<< >>, << >>),
             errors |-> << >>, warnings |-> << >>,
             parser_output |-> po, schedule |-> sched]
       ELSE [exc |-> "",
             csv_output |-> _format_csv(sched, all_issues),
             errors |-> SelectSeq(all_issues,
                                  LAMBDA i : startswith(i, "ERROR")),
             warnings |-> SelectSeq(all_issues,
                                    LAMBDA i : startswith(i, "WARNING")),
             parser_output |-> po,
             schedule |-> sorted_schedule(sched).schedule]

----------------------------------------------------------------------------
(* Scheduler stages: src/agents/scheduler.py                               *)

DAY_NAMES ==
    << Str("Monday"), Str("Tuesday"), Str("Wednesday"), Str("Thursday"),
       Str("Friday"), Str("Saturday"), Str("Sunday") >>

\* datetime.weekday(): 0 is Monday.  Day number d stands for 2025-03-d,
\* so day 3 and day 10 are Mondays.
weekday(d) == (d + 4) % 7

\* the loop with the end date included
RECURSIVE ValidDatesLoop_Inclusive(_, _, _, _)
ValidDatesLoop_Inclusive(current, end_dt, rest_set, dates) ==
    IF ~(current <= end_dt) THEN dates
    ELSE ValidDatesLoop_Inclusive(current + 1, end_dt, rest_set,
            IF lower(DAY_NAMES[weekday(current) + 1]) \notin rest_set
            THEN Append(dates, current) ELSE dates)

RECURSIVE ValidDatesLoop(_, _, _, _)
ValidDatesLoop(current, end_dt, rest_set, dates) ==
    IF ~(current < end_dt) THEN dates
    ELSE ValidDatesLoop(current + 1, end_dt, rest_set,
            IF lower(DAY_NAMES[weekday(current) + 1]) \notin rest_set
            THEN Append(dates, current) ELSE dates)

_get_valid_dates(start, end_exclusive, rest_days) ==
    ValidDatesLoop(start, end_exclusive,
                   { lower(d) : d \in Range(rest_days) }, << >>)

CourseCodes(po) == [i \in 1..Len(po.courses) |-> po.courses[i].code]

\* the courses a schedule request is built from: those with a midterm date
EligibleCourses(po) ==
    SelectSeq(po.courses, LAMBDA c : IsSome(c.midterm_date))

DefaultPriority ==
    [priority_score |-> 50, reasoning |-> "Default priority (JSON parsing failed)"]

\* an oracle call that ended with exception exc: "LLMError" for the
\* ClientError or ServerError _llm_call re-raises, "ValueError" for the
\* one float() raises inside its except clause
Raised(exc) == [kind |-> "raised", exc |-> exc]

\* determine_priorities.  response is what the oracle call comes to:
\* kind "raised" (the call raised exc, which nothing here catches),
\* "unparseable" (json.loads fails) or "parsed" with the decoded value.
\* Scores are in tenths (50 is 5.0).
determine_priorities(po, now, response) ==
    LET course_codes == CourseCodes(po)
        request == [kind |-> "rank", today |-> now, courses |-> course_codes]
    IN IF response.kind = "raised"
       THEN [exc |-> response.exc, value |-> << >>, request |-> request]
       ELSE IF response.kind = "parsed"
       THEN [exc |-> "", value |-> response.value, request |-> request]
       ELSE [exc |-> "",
             value |-> [course_priorities |->
                          [code \in Range(course_codes) |-> DefaultPriority]],
             request |-> request]

\* the upper threshold tested with >= instead of >
ReviewTier_Ge(total_topics) ==
    IF total_topics >= 15 THEN "top_course_review_1_only"
    ELSE IF total_topics > 10 THEN "review_1_optional_low_pages"
    ELSE "full"

ReviewTier(total_topics) ==
    IF total_topics > 15 THEN "top_course_review_1_only"
    ELSE IF total_topics > 10 THEN "review_1_optional_low_pages"
    ELSE "full"

MaxHoursRule(max_hours) ==
    IF IsSome(max_hours) /\ Val(max_hours) # 0
    THEN << "MUST NOT exceed", Val(max_hours) >>
    ELSE << "4-6 hours recommended" >>

LatestExam(po) ==
    SetMax({ Val(c.midterm_date) : c \in Range(EligibleCourses(po)) })

RECURSIVE SumLen(_)
SumLen(ss) == IF ss = << >> THEN 0 ELSE Len(Head(ss)) + SumLen(Tail(ss))

\* the constraints both generate_schedule and regenerate_schedule compute
ScheduleRequest(kind, po, prios, now, previous_schedule, errs) ==
    LET courses_spec == EligibleCourses(po)
        valid_topics == [i \in 1..Len(courses_spec) |->
                           [k \in 1..Len(courses_spec[i].topics) |->
                              courses_spec[i].topics[k].name]]
    IN [kind |-> kind,
        today |-> now,
        start_date |-> now + 1,
        courses |-> CourseCodes([courses |-> courses_spec]),
        priorities |-> prios,
        valid_dates |-> _get_valid_dates(now + 1, LatestExam(po),
                                         po.preferences.rest_days),
        valid_topics |-> valid_topics,
        max_hours_rule |-> MaxHoursRule(po.preferences.max_hours_per_day),
        review_tier |-> ReviewTier(SumLen(valid_topics)),
        errors |-> errs,
        previous_schedule |-> previous_schedule]

\* what _llm_call followed by _safe_json_parse comes to for one attempt:
\* kind "raised" (_llm_call raised exc), "json_error" (still unparseable
\* after the retries) or "ok" with the decoded candidate
OracleOutcome(response, request) ==
    IF response.kind = "raised"
    THEN [exc |-> response.exc, value |-> << >>, request |-> Some(request)]
    ELSE IF response.kind = "json_error"
    THEN [exc |-> "JSONDecodeError", value |-> << >>,
          request |-> Some(request)]
    ELSE [exc |-> "", value |-> response.value, request |-> Some(request)]

\* generate_schedule without the early return for an empty course list
generate_schedule_NoGuard(po, prios, now, response) ==
    IF EligibleCourses(po) = << >>
    THEN OracleOutcome(response, [kind |-> "generate", today |-> now,
                                  courses |-> << >>])
    ELSE LET request == ScheduleRequest("generate", po, prios, now,
                                        << >>, << >>)
         IN IF request.valid_dates = << >>
            THEN [exc |-> "IndexError", value |-> << >>, request |-> None]
            ELSE OracleOutcome(response, request)

generate_schedule(po, prios, now, response) ==
    IF EligibleCourses(po) = << >>
    THEN [exc |-> "", value |-> << >>, request |-> None]
    ELSE LET request == ScheduleRequest("generate", po, prios, now,
                                        << >>, << >>)
         IN IF request.valid_dates = << >>
            THEN [exc |-> "IndexError", value |-> << >>, request |-> None]
            ELSE OracleOutcome(response, request)

regenerate_schedule(po, prios, previous_schedule, errs, now, response) ==
    IF EligibleCourses(po) = << >>
    THEN [exc |-> "", value |-> << >>, request |-> None]
    ELSE OracleOutcome(response,
             ScheduleRequest("regenerate", po, prios, now,
                             previous_schedule, errs))

----------------------------------------------------------------------------
(* Inputs: catalogs, clock values and what the oracle may answer           *)

CS101 == Course("CS101", Some(10), 30,
                << Topic("T1", 30), Topic("T2", 50) >>, 80)
CS102 == Course("CS102", Some(8), 20, << Topic("U1", 20) >>, 20)
HIST200 == Course("HIST200", None, 20, << Topic("H1", 10) >>, 10)

CourseLists == { << CS101 >>, << CS101, HIST200 >>, << CS101, CS102 >>,
                 << HIST200 >> }

PreferenceSet == { UserPreferences(Some(6), << Str("Sunday") >>),
                   UserPreferences(None, << >>) }

Catalogs == { ParserOutput(cs, p) : cs \in CourseLists, p \in PreferenceSet }

\* datetime.now(): well before the exams, or the day before the last one
Todays == { 0, 9 }

\* sessions as json.loads returns them, the hours written in hundredths
L(course, topic, hours) ==
    Session(course, topic, json_number(hours), "learning")
R1(course, topic, hours) ==
    Session(course, topic, json_number(hours), "review_1")
R2(course, topic, hours) ==
    Session(course, topic, json_number(hours), "review_2")

\* Scenario A of the specification: no issue for the catalog << CS101 >>
ScenarioA == << Day(1, << L("CS101", "T1", 300) >>),
                Day(2, << L("CS101", "T2", 400) >>),
                Day(4, << R1("CS101", "T1", 100) >>),
                Day(6, << R1("CS101", "T2", 100) >>),
                Day(8, << R2("CS101", "T2", 100) >>) >>
\* Scenario B: one more session on the exam date
ScenarioB == Append(ScenarioA, Day(10, << R2("CS101", "T1", 100) >>))
\* Scenario C: no learning session for T2
ScenarioC == << ScenarioA[1], ScenarioA[3], ScenarioA[5] >>
\* warnings only: 6.5 h on one day, no reviews, last session early
WarnOnly == << Day(1, << L("CS101", "T1", 300), L("CS101", "T2", 350) >>) >>
\* one day above the 8 hour ceiling
Heavy == << Day(1, << L("CS101", "T1", 801) >>),
            Day(2, << L("CS101", "T2", 300) >>) >>

OracleSchedules == { << >>, ScenarioA, ScenarioB, ScenarioC, WarnOnly, Heavy }

OracleGen == { Raised("LLMError"), Raised("ValueError"),
               [kind |-> "json_error"] }
             \cup { [kind |-> "ok", value |-> s] : s \in OracleSchedules }

\* a parsed ranking answer names any subset of the requested course codes
OracleRank(po) ==
    { Raised("LLMError"), Raised("ValueError"), [kind |-> "unparseable"] }
    \cup { [kind |-> "parsed",
            value |-> [course_priorities |->
                         [code \in S |-> [priority_score |-> 80,
                                          reasoning |-> "exam in 10 days"]]]] :
           S \in SUBSET Range(CourseCodes(po)) }

----------------------------------------------------------------------------
(* One oracle call, request by request: _llm_call of src/agents/parser.py  *)
(* and, for a schedule, _safe_json_parse of src/agents/scheduler.py.       *)
(* call.pc is "off" when a stage takes the outcome of its call in one      *)
(* step, "idle" between calls, "request" before a request of _llm_call,    *)
(* "loads" before a json.loads of _safe_json_parse, and "returned" or      *)
(* "raised" when the call has ended and its stage has not yet gone on.     *)
(* The record also holds the loop variables of the two functions, the last *)
(* reply, and counts of requests, sleeps, json.loads calls on a response,  *)
(* truncation repairs and _llm_call invocations.                           *)

CallOff ==
    [pc |-> "off", llm_attempt |-> 0, sjp_attempt |-> 0, raw |-> None,
     value |-> None, exc |-> "", requests |-> 0, llm_calls |-> 0,
     loads |-> 0, fixes |-> 0, slept |-> 0, last_wait |-> 0,
     reply |-> None]

CallIdle == [CallOff EXCEPT !.pc = "idle"]

\* the response texts a request can come back with, by what json.loads and
\* the truncation repair make of them
JsonText(v) == [kind |-> "json", value |-> Some(v)]
TruncatedText(recovered) == [kind |-> "truncated", value |-> recovered]
GarbageText == [kind |-> "garbage", value |-> None]

\* a ClientError or ServerError: its status code and err_str, the str
\* that str(e) gives ("<code> <status>. <response body>")
ApiError(code, err_str) ==
    [kind |-> "error", code |-> code, err_str |-> err_str]

\* sub in text
Contains(text, sub) ==
    \E k \in 1..(Len(text) - Len(sub) + 1) :
        SubSeq(text, k, k + Len(sub) - 1) = sub

RateLimitCode == Str("429")

OverloadCode == Str("503")

is_retryable(e) ==
    Contains(e.err_str, RateLimitCode) \/ Contains(e.err_str, OverloadCode)

\* the end of the longest run of [\d.] that starts at position k
RECURSIVE RunEnd(_, _)
RunEnd(text, k) ==
    IF k <= Len(text) /\ (IsDecimal(text[k]) \/ text[k] = 46)
    THEN RunEnd(text, k + 1) ELSE k - 1

RetryIn == Str("retry in ")

\* the positions where "retry in ", a run of [\d.] and "s" follow one
\* another
MatchStarts(text) ==
    { k \in 1..(Len(text) - Len(RetryIn)) :
        /\ SubSeq(text, k, k + Len(RetryIn) - 1) = RetryIn
        /\ RunEnd(text, k + Len(RetryIn)) >= k + Len(RetryIn)
        /\ RunEnd(text, k + Len(RetryIn)) < Len(text)
        /\ text[RunEnd(text, k + Len(RetryIn)) + 1] = 115 }

\* group 1 of the match that starts at position k
MatchGroup(text, k) ==
    SubSeq(text, k + Len(RetryIn), RunEnd(text, k + Len(RetryIn)))

\* re.search(r"retry in ([\d.]+)s", err_str): group 1 of the leftmost
\* match, if there is a match
retry_match(text) ==
    IF MatchStarts(text) = {} THEN None
    ELSE Some(MatchGroup(text, CHOOSE k \in MatchStarts(text) :
                                   \A h \in MatchStarts(text) : k <= h))

RECURSIVE DecimalValue(_, _)
DecimalValue(digits, acc) ==
    IF digits = << >> THEN acc
    ELSE DecimalValue(Tail(digits), 10 * acc + DecimalDigit(Head(digits)))

\* the digits of the decimal fraction x / 2, for the digits of x
RECURSIVE Halved(_, _)
Halved(digits, carry) ==
    IF digits = << >> THEN (IF carry = 1 THEN << 5 >> ELSE << >>)
    ELSE << (10 * carry + Head(digits)) \div 2 >>
         \o Halved(Tail(digits), Head(digits) % 2)

\* the digits of the decimal fraction 2^-j, j >= 1
RECURSIVE HalfPower(_)
HalfPower(j) == IF j = 1 THEN << 5 >> ELSE Halved(HalfPower(j - 1), 0)

\* the digits of the decimal fraction 1 - x, for the digits of x # 0
OneMinus(digits) ==
    [k \in 1..Len(digits) |->
       IF k = Len(digits) THEN 10 - digits[k] ELSE 9 - digits[k]]

\* fraction a >= fraction b, both given by their digits, from digit k on
RECURSIVE DigitsAtLeast(_, _, _)
DigitsAtLeast(a, b, k) ==
    IF k > Len(b) THEN TRUE
    ELSE IF (IF k <= Len(a) THEN DecimalDigit(a[k]) ELSE 0) > b[k] THEN TRUE
    ELSE IF (IF k <= Len(a) THEN DecimalDigit(a[k]) ELSE 0) < b[k] THEN FALSE
    ELSE DigitsAtLeast(a, b, k + 1)

\* float("<n>.<frac>") is the double nearest to the decimal, ties to even.
\* It is n + 1 exactly when the decimal is at most half the gap between
\* n + 1 and the double below it away from n + 1: 2^(k - 54) if
\* n + 1 = 2^k, and 2^(k - 53) with k + 1 the bit length of n + 1
\* otherwise.
RoundsToNext(n, frac) ==
    DigitsAtLeast(frac,
                  OneMinus(HalfPower(IF 2^(BitLength(n + 1) - 1) = n + 1
                                     THEN 55 - BitLength(n + 1)
                                     ELSE 54 - BitLength(n + 1))),
                  1)

\* int(float("<whole>.<frac>")) for a whole part below 2^31 - 1
TruncatedFloat(n, frac) == IF RoundsToNext(n, frac) THEN n + 1 ELSE n

\* int(float(group)) for a group of digits and points; float() raises
\* ValueError on a group with two points or with no digit
int_float(group) ==
    LET Dots == { k \in 1..Len(group) : group[k] = 46 }
    IN IF Cardinality(Dots) > 1 \/ Cardinality(Dots) = Len(group)
       THEN [exc |-> "ValueError", value |-> 0]
       ELSE IF Dots = {}
       THEN [exc |-> "", value |-> DecimalValue(group, 0)]
       ELSE [exc |-> "",
             value |->
               TruncatedFloat(
                 DecimalValue(SubSeq(group, 1, (CHOOSE k \in Dots : TRUE) - 1),
                              0),
                 SubSeq(group, (CHOOSE k \in Dots : TRUE) + 1, Len(group)))]

\* the seconds to sleep before the next request
wait(e) ==
    IF IsSome(retry_match(e.err_str))
    THEN LET seconds == int_float(Val(retry_match(e.err_str)))
         IN [seconds EXCEPT !.value = @ + 5]
    ELSE [exc |-> "", value |-> 15]

json_loads(raw) ==
    IF raw.kind = "json" THEN [exc |-> "", value |-> raw.value]
    ELSE [exc |-> "JSONDecodeError", value |-> None]

\* the repair of a truncated array: what json.loads(fixed) returns, if the
\* repair applies and its result parses
TruncationFix(raw) ==
    IF raw.kind = "truncated" THEN raw.value ELSE None

llm_call_max_retries == 5

safe_json_parse_max_retries == 2

RunSchedules == { << >>, ScenarioA, ScenarioC }

GenTexts ==
    { JsonText(s) : s \in RunSchedules }
    \cup { TruncatedText(Some(SubSeq(ScenarioA, 1, 3))), TruncatedText(None),
           GarbageText }

RankTexts(po) ==
    { JsonText(r.value) : r \in { x \in OracleRank(po) : x.kind = "parsed" } }
    \cup { GarbageText }

\* failures of one request: a rate limit, a rate limit that names a delay,
\* an overload, an invalid request, failures that are no rate limit and no
\* overload but show those digits in their text, a rate limit whose
\* delay is no number, and one whose delay float() rounds up to 8.0
ApiErrors ==
    { ApiError(429, Str("429 RESOURCE_EXHAUSTED. {'error': {'code': 429, 'message': 'Quota exceeded.', 'status': 'RESOURCE_EXHAUSTED'}}")),
      ApiError(429, Str("429 RESOURCE_EXHAUSTED. {'error': {'code': 429, 'message': 'Quota exceeded. Please retry in 7.9s.', 'status': 'RESOURCE_EXHAUSTED'}}")),
      ApiError(503, Str("503 UNAVAILABLE. {'error': {'code': 503, 'message': 'The model is overloaded.', 'status': 'UNAVAILABLE'}}")),
      ApiError(400, Str("400 INVALID_ARGUMENT. {'error': {'code': 400, 'message': 'API key not valid.', 'status': 'INVALID_ARGUMENT'}}")),
      ApiError(400, Str("400 INVALID_ARGUMENT. {'error': {'code': 400, 'message': 'Request payload size 4294967296 exceeds the limit.', 'status': 'INVALID_ARGUMENT'}}")),
      ApiError(500, Str("500 INTERNAL. {'error': {'code': 500, 'message': 'Internal error, trace id 5031', 'status': 'INTERNAL'}}")),
      ApiError(429, Str("429 RESOURCE_EXHAUSTED. {'error': {'code': 429, 'message': 'Please retry in 1.2.3s.', 'status': 'RESOURCE_EXHAUSTED'}}")),
      ApiError(429, Str("429 RESOURCE_EXHAUSTED. {'error': {'code': 429, 'message': 'Please retry in 7.99999999999999999s.', 'status': 'RESOURCE_EXHAUSTED'}}")) }

\* what the except clause of _llm_call finds in each failure
ExceptClause ==
    [e \in ApiErrors |-> [is_retryable |-> is_retryable(e), wait |-> wait(e)]]

\* whether the stage at pc sends a request to the oracle at all
NeedsOracle ==
    CASE pc = "rank" -> TRUE
      [] pc = "generate" ->
           IsSome(generate_schedule(Val(parser_output), Val(priorities),
                                    today, Raised("LLMError")).request)
      [] pc = "repair" ->
           IsSome(regenerate_schedule(Val(parser_output), Val(priorities),
                                      Val(schedule), errors, today,
                                      Raised("LLMError")).request)
      [] OTHER -> FALSE

\* the stage at pc can go on: its call has ended, or it makes none
CallSettled ==
    \/ call.pc \in {"off", "returned", "raised"}
    \/ call.pc = "idle" /\ ~NeedsOracle

\* what the ranking stage gets from its call
RankResponses(po) ==
    IF call.pc = "off" THEN OracleRank(po)
    ELSE IF call.pc = "raised" THEN { Raised(call.exc) }
    ELSE IF Val(call.raw).kind = "json"
    THEN { [kind |-> "parsed", value |-> Val(Val(call.raw).value)] }
    ELSE { [kind |-> "unparseable"] }

\* what a generation stage gets from its call: the decoded candidate,
\* the JSONDecodeError of _safe_json_parse or the exception _llm_call
\* ended with (nothing it reads when it makes no call)
GenResponses ==
    IF call.pc = "off" THEN OracleGen
    ELSE IF call.pc = "returned"
    THEN { [kind |-> "ok", value |-> Val(call.value)] }
    ELSE IF call.pc = "raised" /\ call.exc = "JSONDecodeError"
    THEN { [kind |-> "json_error"] }
    ELSE IF call.pc = "raised" THEN { Raised(call.exc) }
    ELSE { [kind |-> "no_call"] }

CallAfterStage == IF call.pc = "off" THEN call ELSE CallIdle

ControllerVars ==
    << mode, parser_output, today, pc, attempt, iteration, priorities,
       schedule, errors, warnings, csv_output, study_plan_csv, escalate,
       tool_result, last_request, last_gen, rank_calls, gen_calls,
       repair_calls, val_calls >>

\* the stage at pc enters _llm_call
BeginOracleCall ==
    /\ mode = "cli" /\ call.pc = "idle"
    /\ pc \in {"rank", "generate", "repair"}
    /\ NeedsOracle
    /\ call' = [CallIdle EXCEPT !.pc = "request", !.llm_calls = 1]
    /\ UNCHANGED ControllerVars

\* one round of the for loop of _llm_call
LlmRequest ==
    /\ call.pc = "request"
    /\ \E reply \in (IF pc = "rank" THEN RankTexts(Val(parser_output))
                     ELSE GenTexts) \cup ApiErrors :
         IF reply.kind # "error"
         THEN call' = [call EXCEPT !.requests = @ + 1,
                                   !.reply = Some(reply),
                                   !.raw = Some(reply),
                                   !.pc = IF pc = "rank" THEN "returned"
                                          ELSE "loads"]
         ELSE IF ExceptClause[reply].is_retryable
                 /\ call.llm_attempt < llm_call_max_retries - 1
         THEN IF ExceptClause[reply].wait.exc = ""
              THEN call' = [call EXCEPT !.requests = @ + 1,
                                        !.reply = Some(reply),
                                        !.slept = @ + 1,
                                        !.last_wait =
                                            ExceptClause[reply].wait.value,
                                        !.llm_attempt = @ + 1]
              ELSE call' = [call EXCEPT !.requests = @ + 1,
                                        !.reply = Some(reply),
                                        !.pc = "raised",
                                        !.exc = ExceptClause[reply].wait.exc]
         ELSE call' = [call EXCEPT !.requests = @ + 1,
                                   !.reply = Some(reply),
                                   !.pc = "raised",
                                   !.exc = "LLMError"]
    /\ UNCHANGED ControllerVars

\* one round of the for loop of _safe_json_parse
JsonLoads ==
    /\ call.pc = "loads"
    /\ LET raw == Val(call.raw)
           r == json_loads(raw)
           fixed == TruncationFix(raw)
       IN IF r.exc = ""
          THEN call' = [call EXCEPT !.loads = @ + 1, !.pc = "returned",
                                    !.value = r.value]
          ELSE IF call.sjp_attempt = safe_json_parse_max_retries
          THEN call' = [call EXCEPT !.loads = @ + 1, !.pc = "raised",
                                    !.exc = r.exc]
          ELSE IF IsSome(fixed)
          THEN call' = [call EXCEPT !.loads = @ + 1, !.fixes = @ + 1,
                                    !.pc = "returned", !.value = fixed]
          ELSE call' = [call EXCEPT !.loads = @ + 1,
                                    !.fixes = IF raw.kind = "truncated"
                                              THEN @ + 1 ELSE @,
                                    !.sjp_attempt = @ + 1,
                                    !.pc = "request",
                                    !.llm_attempt = 0,
                                    !.requests = 0,
                                    !.slept = 0,
                                    !.last_wait = 0,
                                    !.llm_calls = @ + 1]
    /\ UNCHANGED ControllerVars

----------------------------------------------------------------------------
(* Script controller: src/main.py                                          *)

\* the loop bound off by one
MAX_RETRIES_PlusOne == 3 + 1

\* two more rounds of the loop
MAX_RETRIES_Five == 3 + 2

MAX_RETRIES == 3

GenCall(kind, previous_schedule, errs) ==
    [kind |-> kind, previous_schedule |-> previous_schedule, errors |-> errs]

\* run_scheduler, step 1
CliDeterminePriorities ==
    /\ mode = "cli" /\ pc = "rank"
    /\ CallSettled
    /\ call' = CallAfterStage
    /\ \E response \in RankResponses(Val(parser_output)) :
         LET r == determine_priorities(Val(parser_output), today, response)
         IN /\ rank_calls' = rank_calls + 1
            /\ last_request' = Some(r.request)
            /\ IF r.exc # ""
               THEN /\ pc' = "fatal"
                    /\ tool_result' = r.exc
                    /\ UNCHANGED priorities
               ELSE /\ pc' = "generate"
                    /\ tool_result' = "ok"
                    /\ priorities' = Some(r.value)
    /\ UNCHANGED << mode, parser_output, today, attempt, iteration, schedule,
                    errors, warnings, csv_output, study_plan_csv, escalate,
                    last_gen, gen_calls, repair_calls, val_calls >>

\* run_scheduler, step 2, then entry of the for loop
CliGenerateSchedule ==
    /\ mode = "cli" /\ pc = "generate"
    /\ CallSettled
    /\ call' = CallAfterStage
    /\ \E response \in GenResponses :
         LET r == generate_schedule(Val(parser_output), Val(priorities),
                                    today, response)
         IN /\ gen_calls' = gen_calls + 1
            /\ last_gen' = Some(GenCall("generate", << >>, << >>))
            /\ last_request' = IF IsSome(r.request) THEN r.request
                               ELSE last_request
            /\ IF r.exc # ""
               THEN /\ pc' = "fatal"
                    /\ tool_result' = r.exc
                    /\ UNCHANGED << schedule, attempt >>
               ELSE /\ pc' = "validate"
                    /\ tool_result' = "ok"
                    /\ schedule' = Some(r.value)
                    /\ attempt' = 1
    /\ UNCHANGED << mode, parser_output, today, iteration, priorities, errors,
                    warnings, csv_output, study_plan_csv, escalate,
                    rank_calls, repair_calls, val_calls >>

\* loop body up to the branch on errors; leaving the loop writes the file.
\* main passes its own parser_output and schedule objects to run_validator.
CliRunValidator ==
    /\ mode = "cli" /\ pc = "validate"
    /\ LET r == run_validator(Val(parser_output), Val(schedule))
       IN /\ val_calls' = val_calls + 1
          /\ IF r.exc # ""
             THEN /\ pc' = "fatal"
                  /\ tool_result' = r.exc
                  /\ UNCHANGED << csv_output, errors, warnings,
                                  study_plan_csv >>
             ELSE /\ tool_result' = "ok"
                  /\ csv_output' = Some(r.csv_output)
                  /\ errors' = r.errors
                  /\ warnings' = r.warnings
                  /\ IF r.errors = << >> \/ ~(attempt < MAX_RETRIES)
                     THEN /\ pc' = "done"
                          /\ study_plan_csv' = Some(r.csv_output)
                     ELSE /\ pc' = "repair"
                          /\ UNCHANGED study_plan_csv
          /\ parser_output' = Some(r.parser_output)
          /\ schedule' = Some(r.schedule)
    /\ UNCHANGED << call, mode, today, attempt, iteration, priorities,
                    escalate, last_request, last_gen, rank_calls, gen_calls,
                    repair_calls >>

\* run_scheduler_retry, then the next round of the for loop
CliRunSchedulerRetry ==
    /\ mode = "cli" /\ pc = "repair"
    /\ CallSettled
    /\ call' = CallAfterStage
    /\ \E response \in GenResponses :
         LET r == regenerate_schedule(Val(parser_output), Val(priorities),
                                      Val(schedule), errors, today, response)
         IN /\ gen_calls' = gen_calls + 1
            /\ repair_calls' = repair_calls + 1
            /\ last_gen' = Some(GenCall("regenerate", Val(schedule), errors))
            /\ last_request' = IF IsSome(r.request) THEN r.request
                               ELSE last_request
            /\ IF r.exc # ""
               THEN /\ pc' = "fatal"
                    /\ tool_result' = r.exc
                    /\ UNCHANGED << schedule, attempt >>
               ELSE /\ pc' = "validate"
                    /\ tool_result' = "ok"
                    /\ schedule' = Some(r.value)
                    /\ attempt' = attempt + 1
    /\ UNCHANGED << mode, parser_output, today, iteration, priorities, errors,
                    warnings, csv_output, study_plan_csv, escalate,
                    rank_calls, val_calls >>

----------------------------------------------------------------------------
(* Agent controller: src/agents/agent.py, scheduler_agent.py,              *)
(* validator_agent.py.  One round of the schedule loop is the scheduler    *)
(* agent (determine_priorities, then generate_schedule, as its instruction *)
(* lists them) followed by the validator agent (validate_and_format).      *)

max_iterations == 3
max_attempts == 3

RUN_PARSER_FIRST == "Error: No parser output found in state. Run parser first."
NO_PRIORITIES ==
    "Error: No priorities found in state. Call determine_priorities first."
NO_PARSER_OUTPUT == "Error: No parser output found in state."
NO_SCHEDULE == "Error: No schedule found in state."

\* tool determine_priorities
AdkDeterminePriorities ==
    /\ mode = "adk" /\ pc = "rank"
    /\ IF ~IsSome(parser_output)
       THEN /\ tool_result' = RUN_PARSER_FIRST
            /\ pc' = "generate"
            /\ UNCHANGED << priorities, rank_calls, last_request >>
       ELSE \E response \in OracleRank(Val(parser_output)) :
              LET r == determine_priorities(Val(parser_output), today,
                                            response)
              IN /\ rank_calls' = rank_calls + 1
                 /\ last_request' = Some(r.request)
                 /\ IF r.exc # ""
                    THEN /\ pc' = "fatal"
                         /\ tool_result' = r.exc
                         /\ UNCHANGED priorities
                    ELSE /\ pc' = "generate"
                         /\ tool_result' = "ok"
                         /\ priorities' = Some(r.value)
    /\ UNCHANGED << call, mode, parser_output, today, attempt, iteration, schedule,
                    errors, warnings, csv_output, study_plan_csv, escalate,
                    last_gen, gen_calls, repair_calls, val_calls >>

\* tool generate_schedule
AdkGenerateSchedule ==
    /\ mode = "adk" /\ pc = "generate"
    /\ IF ~IsSome(parser_output) \/ ~IsSome(priorities)
       THEN /\ tool_result' = IF ~IsSome(parser_output)
                              THEN RUN_PARSER_FIRST ELSE NO_PRIORITIES
            /\ pc' = "validate"
            /\ UNCHANGED << schedule, errors, last_request, last_gen,
                            gen_calls, repair_calls >>
       ELSE \E response \in OracleGen :
              LET previous_schedule == IF IsSome(schedule) THEN Val(schedule)
                                       ELSE << >>
                  retry == errors # << >> /\ previous_schedule # << >>
                  r == IF retry
                       THEN regenerate_schedule(Val(parser_output),
                                Val(priorities), previous_schedule, errors,
                                today, response)
                       ELSE generate_schedule(Val(parser_output),
                                Val(priorities), today, response)
              IN /\ gen_calls' = gen_calls + 1
                 /\ repair_calls' = IF retry THEN repair_calls + 1
                                    ELSE repair_calls
                 /\ last_gen' = IF retry
                                THEN Some(GenCall("regenerate",
                                                  previous_schedule, errors))
                                ELSE Some(GenCall("generate", << >>, << >>))
                 /\ last_request' = IF IsSome(r.request) THEN r.request
                                    ELSE last_request
                 /\ IF r.exc # ""
                    THEN /\ pc' = "fatal"
                         /\ tool_result' = r.exc
                         /\ UNCHANGED << schedule, errors >>
                    ELSE /\ pc' = "validate"
                         /\ tool_result' = "ok"
                         /\ schedule' = Some(r.value)
                         /\ errors' = << >>
    /\ UNCHANGED << call, mode, parser_output, today, attempt, iteration,
                    priorities, warnings, csv_output, study_plan_csv,
                    escalate, rank_calls, val_calls >>

\* the schedule loop after the validator agent: stop on escalate or after
\* max_iterations rounds, else start the next round
LoopAdvance(esc) ==
    IF esc \/ ~(iteration < max_iterations)
    THEN pc' = "done" /\ UNCHANGED iteration
    ELSE pc' = "rank" /\ iteration' = iteration + 1

\* validate_and_format counting the attempt before it looks at the state
AdkValidateAndFormat_CountsFirst ==
    /\ mode = "adk" /\ pc = "validate"
    /\ attempt' = attempt + 1
    /\ IF ~IsSome(parser_output) \/ ~IsSome(schedule)
          \/ Val(schedule) = << >>
       THEN /\ tool_result' = IF ~IsSome(parser_output)
                              THEN NO_PARSER_OUTPUT ELSE NO_SCHEDULE
            /\ LoopAdvance(escalate)
            /\ UNCHANGED << errors, warnings, csv_output,
                            study_plan_csv, escalate, val_calls >>
       ELSE LET r == run_validator(Val(parser_output), Val(schedule))
            IN /\ val_calls' = val_calls + 1
               /\ IF r.exc # ""
                  THEN /\ pc' = "fatal"
                       /\ tool_result' = r.exc
                       /\ UNCHANGED << errors, warnings, csv_output,
                                       study_plan_csv, escalate, iteration >>
                  ELSE /\ tool_result' = "ok"
                       /\ errors' = r.errors
                       /\ warnings' = r.warnings
                       /\ csv_output' = Some(r.csv_output)
                       /\ study_plan_csv' = Some(r.csv_output)
                       /\ escalate' = (r.errors = << >>
                                       \/ attempt + 1 >= max_attempts)
                       /\ LoopAdvance(escalate')
    /\ UNCHANGED << call, mode, parser_output, today, priorities, schedule,
                    last_request, last_gen, rank_calls, gen_calls,
                    repair_calls >>

\* tool validate_and_format
AdkValidateAndFormat ==
    /\ mode = "adk" /\ pc = "validate"
    /\ IF ~IsSome(parser_output) \/ ~IsSome(schedule)
          \/ Val(schedule) = << >>
       THEN /\ tool_result' = IF ~IsSome(parser_output)
                              THEN NO_PARSER_OUTPUT ELSE NO_SCHEDULE
            /\ LoopAdvance(escalate)
            /\ UNCHANGED << attempt, errors, warnings, csv_output,
                            study_plan_csv, escalate, val_calls >>
       ELSE LET r == run_validator(Val(parser_output), Val(schedule))
            IN /\ attempt' = attempt + 1
               /\ val_calls' = val_calls + 1
               /\ IF r.exc # ""
                  THEN /\ pc' = "fatal"
                       /\ tool_result' = r.exc
                       /\ UNCHANGED << errors, warnings, csv_output,
                                       study_plan_csv, escalate, iteration >>
                  ELSE /\ tool_result' = "ok"
                       /\ errors' = r.errors
                       /\ warnings' = r.warnings
                       /\ csv_output' = Some(r.csv_output)
                       /\ study_plan_csv' = Some(r.csv_output)
                       /\ escalate' = (r.errors = << >>
                                       \/ attempt + 1 >= max_attempts)
                       /\ LoopAdvance(escalate')
    /\ UNCHANGED << call, mode, parser_output, today, priorities, schedule,
                    last_request, last_gen, rank_calls, gen_calls,
                    repair_calls >>

----------------------------------------------------------------------------
(* run_validator called on its own                                         *)

ValidatorCall ==
    /\ mode = "validator" /\ pc = "call"
    /\ LET r == run_validator(Val(parser_output), Val(schedule))
       IN /\ val_calls' = val_calls + 1
          /\ IF r.exc # ""
             THEN /\ pc' = "raised"
                  /\ tool_result' = r.exc
                  /\ UNCHANGED << csv_output, errors, warnings >>
             ELSE /\ pc' = "returned"
                  /\ tool_result' = "ok"
                  /\ csv_output' = Some(r.csv_output)
                  /\ errors' = r.errors
                  /\ warnings' = r.warnings
          /\ parser_output' = Some(r.parser_output)
          /\ schedule' = Some(r.schedule)
    /\ UNCHANGED << call, mode, today, attempt, iteration, priorities,
                    study_plan_csv, escalate, last_request, last_gen,
                    rank_calls, gen_calls, repair_calls >>

----------------------------------------------------------------------------
(* Specifications                                                          *)

InitCommon ==
    /\ attempt = 0
    /\ iteration = 1
    /\ priorities = None
    /\ errors = << >>
    /\ warnings = << >>
    /\ csv_output = None
    /\ study_plan_csv = None
    /\ escalate = FALSE
    /\ tool_result = ""
    /\ last_request = None
    /\ last_gen = None
    /\ rank_calls = 0
    /\ gen_calls = 0
    /\ repair_calls = 0
    /\ val_calls = 0
    /\ call = CallOff

\* a run of either controller on a freshly loaded catalog; the agent
\* controller may also start without one
Init ==
    /\ mode \in {"cli", "adk"}
    /\ parser_output \in { Some(c) : c \in Catalogs }
                         \cup (IF mode = "adk" THEN {None} ELSE {})
    /\ today \in Todays
    /\ pc = "rank"
    /\ schedule = None
    /\ InitCommon

Next ==
    \/ CliDeterminePriorities
    \/ CliGenerateSchedule
    \/ CliRunValidator
    \/ CliRunSchedulerRetry
    \/ AdkDeterminePriorities
    \/ AdkGenerateSchedule
    \/ AdkValidateAndFormat

Spec == Init /\ [][Next]_vars

----------------------------------------------------------------------------
(* run_validator on bounded candidates that vary the daily load            *)

MaxSessions == 3

HourValues == { 300, 350, 500, 801 }

\* one learning session of either CS101 topic, on day 1 or 2
LoadPlacements ==
    { [date |-> d, s |-> L("CS101", tp, h)] :
        d \in {1, 2}, tp \in {"T1", "T2"}, h \in HourValues }

FlatCandidates(P) == UNION { [1..n -> P] : n \in 0..MaxSessions }

\* consecutive sessions of one date share a day entry
RECURSIVE GroupDays(_)
GroupDays(flat) ==
    IF flat = << >> THEN << >>
    ELSE LET rest == GroupDays(SubSeq(flat, 1, Len(flat) - 1))
             last == flat[Len(flat)]
         IN IF rest # << >> /\ rest[Len(rest)].date = last.date
            THEN [rest EXCEPT ![Len(rest)].sessions = Append(@, last.s)]
            ELSE Append(rest, Day(last.date, << last.s >>))

\* every session in a day entry of its own (dates may repeat)
SingleDays(flat) == [i \in 1..Len(flat) |-> Day(flat[i].date, << flat[i].s >>)]

\* one day of 2.6 + 3.7 + 0.9 + 0.8 hours: 8 hours as written
EightAsWritten ==
    << Day(1, << L("CS101", "T1", 260), L("CS101", "T2", 370),
                 R1("CS101", "T1", 90), R1("CS101", "T2", 80) >>) >>

\* one day of 1.1 + 3.2 + 1.7 hours: 6 hours as written
SixAsWritten ==
    << Day(1, << L("CS101", "T1", 110), L("CS101", "T2", 320),
                 R1("CS101", "T1", 170) >>) >>

\* a course with a midterm date and no topics
SEM150 == Course("SEM150", Some(9), 10, << >>, 0)

\* CS101 under each cap, and CS101 next to a course no session can be for
LoadCatalogs ==
    { ParserOutput(<< CS101 >>, UserPreferences(m, << >>)) :
        m \in { None, Some(6), Some(9) } }
    \cup { ParserOutput(cs, UserPreferences(Some(6), << >>)) :
             cs \in { << CS101, HIST200 >>, << CS101, SEM150 >> } }

InitDailyHours ==
    /\ mode = "validator"
    /\ parser_output \in { Some(c) : c \in LoadCatalogs }
    /\ today = 0
    /\ pc = "call"
    /\ schedule \in { Some(GroupDays(f)) : f \in FlatCandidates(LoadPlacements) }
                    \cup { Some(SingleDays(f)) :
                             f \in FlatCandidates(LoadPlacements) }
                    \cup { Some(EightAsWritten), Some(SixAsWritten) }
    /\ InitCommon

NextValidator == ValidatorCall

SpecDailyHours == InitDailyHours /\ [][NextValidator]_vars

----------------------------------------------------------------------------
(* run_validator, called twice, on bounded candidates that vary coverage,  *)
(* dates and session types                                                 *)

\* a second call of run_validator, on the objects the first call left
ValidatorCallAgain ==
    /\ mode = "validator" /\ pc \in {"returned", "raised"} /\ val_calls = 1
    /\ LET r == run_validator(Val(parser_output), Val(schedule))
       IN /\ val_calls' = val_calls + 1
          /\ IF r.exc # ""
             THEN /\ pc' = "raised"
                  /\ tool_result' = r.exc
                  /\ UNCHANGED << csv_output, errors, warnings >>
             ELSE /\ pc' = "returned"
                  /\ tool_result' = "ok"
                  /\ csv_output' = Some(r.csv_output)
                  /\ errors' = r.errors
                  /\ warnings' = r.warnings
          /\ parser_output' = Some(r.parser_output)
          /\ schedule' = Some(r.schedule)
    /\ UNCHANGED << call, mode, today, attempt, iteration, priorities,
                    study_plan_csv, escalate, last_request, last_gen,
                    rank_calls, gen_calls, repair_calls >>

MaxRuleSessions == 3

\* learning at day 1 makes the review gaps 1, 3 and 8; day 9 is after the
\* CS102 exam (day 8), day 10 is the CS101 exam date
RuleDates == { 1, 2, 4, 9, 10 }

RuleTopics == { << "CS101", "T1" >>, << "CS101", "T2" >>, << "CS102", "U1" >> }

RulePlacements ==
    { [date |-> d, s |-> Session(ct[1], ct[2], json_number(200), ty)] :
        d \in RuleDates, ct \in RuleTopics,
        ty \in {"learning", "review_1", "review_2"} }

\* every candidate of at most MaxRuleSessions sessions, in any date order,
\* and the scenarios of the specification
RuleCandidates ==
    { GroupDays(f) :
        f \in UNION { [1..n -> RulePlacements] : n \in 0..MaxRuleSessions } }
    \cup { ScenarioA, ScenarioB, ScenarioC }

RuleCatalogs ==
    { ParserOutput(cs, UserPreferences(Some(6), << >>)) :
        cs \in { << CS101 >>, << CS101, CS102 >>, << CS101, HIST200 >> } }
    \cup { ParserOutput(<< CS101 >>, UserPreferences(None, << >>)) }

InitRules ==
    /\ mode = "validator"
    /\ parser_output \in { Some(c) : c \in RuleCatalogs }
    /\ today = 0
    /\ pc = "call"
    /\ schedule \in { Some(c) : c \in RuleCandidates }
    /\ InitCommon

NextRules == ValidatorCall \/ ValidatorCallAgain

SpecRules == InitRules /\ [][NextRules]_vars

----------------------------------------------------------------------------
(* The agent tools called on a session state that may lack the catalog,    *)
(* the priority table or the schedule: the agent decides the order of its  *)
(* tool calls, so a tool can run before the one that fills its input       *)

ToolCatalogs == { ParserOutput(<< CS101 >>, UserPreferences(Some(6), << >>)),
                  ParserOutput(<< CS101, CS102 >>,
                               UserPreferences(Some(6), << >>)) }

ToolSchedules == { None, Some(<< >>), Some(ScenarioA), Some(ScenarioC) }

InitTools ==
    /\ mode = "adk"
    /\ parser_output \in { None } \cup { Some(c) : c \in ToolCatalogs }
    /\ today = 0
    /\ pc \in { "rank", "generate", "validate" }
    /\ schedule \in ToolSchedules
    /\ priorities \in
         { None } \cup
         (IF IsSome(parser_output)
          THEN { Some(determine_priorities(Val(parser_output), today,
                                           [kind |-> "unparseable"]).value) }
          ELSE {})
    /\ errors \in
         { << >> } \cup
         (IF IsSome(parser_output) /\ IsSome(schedule)
          THEN { run_validator(Val(parser_output), Val(schedule)).errors }
          ELSE {})
    /\ attempt = 0
    /\ iteration = 1
    /\ warnings = << >>
    /\ csv_output = None
    /\ study_plan_csv = None
    /\ escalate = FALSE
    /\ tool_result = ""
    /\ last_request = None
    /\ last_gen = None
    /\ rank_calls = 0
    /\ gen_calls = 0
    /\ repair_calls = 0
    /\ val_calls = 0
    /\ call = CallOff

NextTools ==
    \/ AdkDeterminePriorities
    \/ AdkGenerateSchedule
    \/ AdkValidateAndFormat

SpecTools == InitTools /\ [][NextTools]_vars

----------------------------------------------------------------------------
(* Runs of both controllers on catalogs whose topic counts lie around the  *)
(* review thresholds                                                       *)

TopicNames == << "K1", "K2", "K3", "K4", "K5", "K6", "K7", "K8", "K9",
                 "K10", "K11", "K12", "K13", "K14", "K15", "K16", "K17" >>

TierSizes == { 9, 10, 11, 14, 15, 16, 17 }

\* a course with a midterm date and n topics
BigCourse(n) ==
    Course("MATH235", Some(10), 30,
           [k \in 1..n |-> Topic(TopicNames[k], 10)], 10 * n)

\* a course without a midterm date and six topics
ARCH300 ==
    Course("ARCH300", None, 10,
           [k \in 1..6 |-> Topic(TopicNames[k], 10)], 60)

TierCatalogs ==
    { ParserOutput(cs, UserPreferences(Some(6), << >>)) :
        cs \in { << BigCourse(n) >> : n \in TierSizes }
               \cup { << BigCourse(n), ARCH300 >> : n \in TierSizes }
               \cup { << BigCourse(n), CS102 >> : n \in TierSizes } }

InitTiers ==
    /\ mode \in {"cli", "adk"}
    /\ parser_output \in { Some(c) : c \in TierCatalogs }
    /\ today = 0
    /\ pc = "rank"
    /\ schedule = None
    /\ InitCommon

SpecTiers == InitTiers /\ [][Next]_vars

----------------------------------------------------------------------------
(* Runs of the script controller with every oracle call taken request by   *)
(* request.  The script is sequential: a step that can be taken is taken.  *)

RunCatalogs ==
    { ParserOutput(cs, UserPreferences(Some(6), << >>)) :
        cs \in { << CS101 >>, << HIST200 >> } }

InitRun ==
    /\ mode = "cli"
    /\ parser_output \in { Some(c) : c \in RunCatalogs }
    /\ today \in Todays
    /\ pc = "rank"
    /\ schedule = None
    /\ attempt = 0
    /\ iteration = 1
    /\ priorities = None
    /\ errors = << >>
    /\ warnings = << >>
    /\ csv_output = None
    /\ study_plan_csv = None
    /\ escalate = FALSE
    /\ tool_result = ""
    /\ last_request = None
    /\ last_gen = None
    /\ rank_calls = 0
    /\ gen_calls = 0
    /\ repair_calls = 0
    /\ val_calls = 0
    /\ call = CallIdle

NextRun ==
    \/ CliDeterminePriorities
    \/ CliGenerateSchedule
    \/ CliRunValidator
    \/ CliRunSchedulerRetry
    \/ BeginOracleCall
    \/ LlmRequest
    \/ JsonLoads

\* Weak fairness of the steps that run the scheduler or the validator,
\* written out: when each can be taken, and the count or position that
\* only it changes.
AtValidatorCall == mode = "cli" /\ pc = "validate"

ValidatorStepTaken ==
    \/ []<>(~AtValidatorCall)
    \/ []<><<AtValidatorCall /\ val_calls' = val_calls + 1>>_vars

AtSchedulerCall == mode = "cli" /\ pc \in {"generate", "repair"} /\ CallSettled

SchedulerStepTaken ==
    \/ []<>(~AtSchedulerCall)
    \/ []<><<AtSchedulerCall /\ gen_calls' = gen_calls + 1>>_vars

AtOracleCall ==
    /\ mode = "cli" /\ call.pc = "idle"
    /\ pc \in {"rank", "generate", "repair"}
    /\ NeedsOracle

OracleCallBegun ==
    \/ []<>(~AtOracleCall)
    \/ []<><<AtOracleCall /\ call'.pc = "request">>_vars

SpecRun ==
    /\ InitRun
    /\ [][NextRun]_vars
    /\ WF_vars(CliDeterminePriorities)
    /\ WF_vars(LlmRequest)
    /\ WF_vars(JsonLoads)
    /\ SchedulerStepTaken
    /\ OracleCallBegun
    /\ ValidatorStepTaken

----------------------------------------------------------------------------
(* Runs of both controllers on catalogs and clock values that vary the     *)
(* scheduling window and the rest days                                     *)

\* rest day lists as a preference can spell them
RestDayLists ==
    { << >>, << Str("Sunday") >>, << Str("SUNDAY") >>,
      << Str("sunday"), Str("Saturday") >>, << Str("SuNdAy") >>,
      << Str("sunDAY"), Str("Monday") >>,
      \* "Sun" and "SÁBADO"
      << Str("Sun"), Str("S") \o << 193 >> \o Str("BADO") >>,
      \* "FRİDAY", whose lower case has a combining dot after the i
      << Str("FR") \o << 304 >> \o Str("DAY"), Str("Sunday") >>,
      << Str("saturday"), Str("WEDNESDAY"), Str("Monday") >>,
      << Str("Monday"), Str("tuesday"), Str("Wednesday"), Str("THURSDAY"),
         Str("Friday"), Str("Saturday"), Str("sunday") >> }

DateCourseLists ==
    { << CS101 >>, << CS101, CS102 >>, << CS102, CS101 >>,
      << CS102, HIST200 >> }

DateCatalogs ==
    { ParserOutput(cs, UserPreferences(Some(6), rd)) :
        cs \in DateCourseLists, rd \in RestDayLists }

\* datetime.now(): from ten days before the last exam to its date
DateTodays == { 0, 2, 6, 7, 8, 9, 10 }

InitDates ==
    /\ mode \in {"cli", "adk"}
    /\ parser_output \in { Some(c) : c \in DateCatalogs }
    /\ today \in DateTodays
    /\ pc = "rank"
    /\ schedule = None
    /\ InitCommon

SpecDates == InitDates /\ [][Next]_vars

----------------------------------------------------------------------------
(* Properties                                                              *)

EligibleCodes(po) == { c.code : c \in Range(EligibleCourses(po)) }

\* a validation ran and returned its result in this step
ValidationReturned == val_calls' = val_calls + 1 /\ pc' # "fatal"

\* a generation attempt (initial or repair) is made in this step
GenerationCall == gen_calls' = gen_calls + 1

\* the step is a repair call of either controller
InRepairCall ==
    \/ mode = "cli" /\ pc = "repair"
    \/ /\ mode = "adk" /\ pc = "generate"
       /\ IsSome(parser_output) /\ IsSome(priorities)
       /\ errors # << >> /\ IsSome(schedule) /\ Val(schedule) # << >>

\* C1: in one run the controller makes at most 3 schedule-generation
\* attempts, at most 2 of them repairs, and at most 3 validations, whatever
\* the validations return.
C1_AtMostThreeAttempts ==
    gen_calls <= 3 /\ repair_calls <= 2 /\ val_calls <= 3

C1_Witness ==
    /\ pc = "done" /\ gen_calls = 3 /\ repair_calls = 2 /\ val_calls = 3
    /\ errors # << >>

\* C2: after each validation the controller is DONE if and only if the
\* ERROR list is empty or the attempt counter has reached 3, and goes on to
\* repair otherwise (the script's repair call, the agent loop's next round).
C2_DoneIffCleanOrExhausted ==
    [][ValidationReturned =>
         /\ (pc' = "done") <=> (errors' = << >> \/ attempt' = 3)
         /\ pc' # "done" => pc' = IF mode = "cli" THEN "repair" ELSE "rank"
      ]_vars

\* C3: a failure of a repair round (the oracle call raising, or its output
\* staying unparseable) does not leave the run without a written output.
C3_RepairFailureKeepsOutput ==
    [][(InRepairCall /\ pc' = "fatal") => IsSome(study_plan_csv')]_vars

\* C4: at DONE the exported schedule is the last candidate produced and the
\* exported issues are those of validating exactly that candidate.
C4_DoneCarriesLastCandidate ==
    (pc = "done" /\ IsSome(parser_output) /\ IsSome(schedule)) =>
        LET r == run_validator(Val(parser_output), Val(schedule))
        IN /\ study_plan_csv = Some(r.csv_output)
           /\ errors = r.errors
           /\ warnings = r.warnings

\* C5: a generation that follows a validation with at least one ERROR is a
\* repair call whose arguments are the candidate just validated and exactly
\* the ERROR-tagged issues of that validation (no WARNING among them).
C5_RepairGetsCandidateAndErrors ==
    [][(GenerationCall /\ errors # << >>) =>
         LET r == run_validator(Val(parser_output), Val(schedule))
         IN last_gen' =
              Some(GenCall("regenerate", Val(schedule),
                           SelectSeq(r.csv_output.header,
                                     LAMBDA i : i.tag = "ERROR")))
      ]_vars

C5_Witness ==
    /\ IsSome(last_gen) /\ Val(last_gen).kind = "regenerate"
    /\ Val(last_gen).errors # << >>
    /\ warnings # << >>
    /\ pc = "validate"

\* C6: the ranking oracle is called once per run (the table is computed
\* before the first generation and not recomputed in a later round).
C6_RankedOnce == rank_calls <= 1

\* C7: a course without a midterm_date is in no ranking or schedule request,
\* in no priority table, and is the subject of no validator issue.
C7_NoExamDateExcluded ==
    IsSome(parser_output) =>
        LET ok == EligibleCodes(Val(parser_output))
        IN /\ \A i \in Range(errors) \cup Range(warnings) :
                 i.course = "" \/ i.course \in ok
           /\ IsSome(last_request) =>
                 Range(Val(last_request).courses) \subseteq ok
           /\ IsSome(priorities) =>
                 DOMAIN Val(priorities).course_priorities \subseteq ok

\* C8: whatever the ranking oracle answers (unparseable, or parsed with
\* course codes missing), the table rank returns has an entry for every
\* course with a midterm date.
C8_EveryEligibleCourseRanked ==
    (IsSome(parser_output) /\ IsSome(priorities)) =>
        EligibleCodes(Val(parser_output))
            \subseteq DOMAIN Val(priorities).course_priorities

\* every hour value a candidate of the harnesses is written with
WrittenHours ==
    HourValues \cup { 80, 90, 100, 110, 170, 200, 260, 320, 370, 400 }

DecimalTable == { [h |-> h, x |-> json_number(h)] : h \in WrittenHours }

\* the hundredths a session's hours were written as
Hundredths(x) == (CHOOSE p \in DecimalTable : p.x = x).h

\* the total of the hours as written, in hundredths
RECURSIVE WrittenTotal(_)
WrittenTotal(sessions) ==
    IF sessions = << >> THEN 0
    ELSE Hundredths(Head(sessions).hours) + WrittenTotal(Tail(sessions))

DayTotal(sched, i) == WrittenTotal(sched[i].sessions)

DailyIssues(issues) == SelectSeq(issues, LAMBDA x : x.rule = "daily_hours")

HasDailyIssue(issues, sched, i) ==
    \E k \in 1..Len(issues) :
        /\ issues[k].rule = "daily_hours"
        /\ issues[k].date = sched[i].date
        /\ issues[k].num = SumHours(sched[i].sessions)

\* C9: with max_hours_per_day M set, a day whose hours total T gets an
\* ERROR iff T > 8, a WARNING iff M < T <= 8, and no daily-load issue
\* otherwise; the issue names the day and the total the validator summed.
C9_DailyLoadRule ==
    (mode = "validator" /\ pc = "returned"
       /\ IsSome(Val(parser_output).preferences.max_hours_per_day)) =>
        LET sched == Val(schedule)
            M == Val(Val(parser_output).preferences.max_hours_per_day) * 100
            over == { i \in 1..Len(sched) : DayTotal(sched, i) > 800 }
            soft == { i \in 1..Len(sched) :
                        M < DayTotal(sched, i) /\ DayTotal(sched, i) <= 800 }
        IN /\ \A i \in 1..Len(sched) :
                /\ HasDailyIssue(errors, sched, i) <=> i \in over
                /\ HasDailyIssue(warnings, sched, i) <=> i \in soft
           /\ Len(DailyIssues(errors)) = Cardinality(over)
           /\ Len(DailyIssues(warnings)) = Cardinality(soft)

\* C10: with max_hours_per_day absent, validate returns normally: a day
\* above 8 hours gets an ERROR, a day of 8 hours or less no daily-load
\* issue.
C10_AbsentCapValidates ==
    (mode = "validator" /\ pc # "call"
       /\ ~IsSome(Val(parser_output).preferences.max_hours_per_day)) =>
        LET sched == Val(schedule)
        IN /\ pc = "returned"
           /\ \A i \in 1..Len(sched) :
                HasDailyIssue(errors, sched, i) <=> DayTotal(sched, i) > 800
           /\ DailyIssues(warnings) = << >>

\* sessions of one course, or of one topic of it, in a candidate
SessionsOf(sched, code) ==
    { x \in Range(DatedSessions(sched)) : x.s.course = code }

TopicDates(sched, code, name, types) ==
    { x.date : x \in { y \in SessionsOf(sched, code) :
                         y.s.topic = name /\ y.s.type \in types } }

IssuesOf(issues, rules, code, name) ==
    SelectSeq(issues, LAMBDA i : i.rule \in rules /\ i.course = code
                                 /\ i.topic = name)

ValidatorReturned == mode = "validator" /\ pc = "returned"

\* C11: for each course with a midterm date, validate emits exactly one
\* coverage ERROR, listing every topic of the course without a learning
\* session, when there is such a topic, and no coverage ERROR otherwise;
\* a coverage issue is never a WARNING.
C11_CoverageRule ==
    ValidatorReturned =>
        \A c \in Range(EligibleCourses(Val(parser_output))) :
            LET missing == { tp.name : tp \in Range(c.topics) }
                           \ { x.s.topic : x \in { y \in SessionsOf(Val(schedule), c.code) :
                                                y.s.type = "learning" } }
                cov == IssuesOf(errors, {"missing_topics"}, c.code, "")
            IN /\ missing # {} => Len(cov) = 1 /\ cov[1].names = missing
               /\ missing = {} => cov = << >>
               /\ IssuesOf(warnings, {"missing_topics"}, c.code, "") = << >>

\* Scenario C: T1 covered, T2 without a learning session
C11_Witness ==
    /\ ValidatorReturned
    /\ Val(parser_output).courses = << CS101 >>
    /\ schedule = Some(ScenarioC)
    /\ IssuesOf(errors, {"missing_topics"}, "CS101", "")
         = << Issue("ERROR", "missing_topics", "CS101", "", 0, 0,
                    {"T2"}, {}) >>

\* C12: for each course with a midterm date, validate emits exactly one
\* on/after-exam-date ERROR, listing the offending dates, iff some session
\* of the course is dated on or after the midterm date (the midterm date
\* itself included).
C12_DeadlineRule ==
    ValidatorReturned =>
        \A c \in Range(EligibleCourses(Val(parser_output))) :
            LET viol == { x.date : x \in { y \in SessionsOf(Val(schedule), c.code) :
                                             y.date >= Val(c.midterm_date) } }
                dl == IssuesOf(errors, {"on_after_exam"}, c.code, "")
            IN /\ viol # {} => Len(dl) = 1 /\ dl[1].dates = viol
               /\ viol = {} => dl = << >>
               /\ IssuesOf(warnings, {"on_after_exam"}, c.code, "") = << >>

\* Scenario B: the only defect is a session on the exam date, and the only
\* ERROR is the one citing it
C12_Witness ==
    /\ ValidatorReturned
    /\ Val(parser_output).courses = << CS101 >>
    /\ schedule = Some(ScenarioB)
    /\ errors = << Issue("ERROR", "on_after_exam", "CS101", "", 10, 0,
                         {}, {10}) >>

RECURSIVE SetMin(_)
SetMin(S) == LET x == CHOOSE y \in S : TRUE
             IN IF S = {x} THEN x
                ELSE LET m == SetMin(S \ {x}) IN IF x < m THEN x ELSE m

SpacingRules == {"no_learning", "no_review", "review_too_soon",
                 "review_too_late"}

\* the spacing issues of one topic, as << tag, rule >> pairs
SpacingIssues(code, name) ==
    LET is == IssuesOf(errors \o warnings, SpacingRules, code, name)
    IN [k \in 1..Len(is) |-> << is[k].tag, is[k].rule >>]

\* C13: for each topic of each course with a midterm date: no learning
\* session gives one ERROR; learning without review gives one WARNING;
\* otherwise, for a topic with one learning session, the gap in days from
\* it to the earliest-dated review gives a WARNING when below 2, a WARNING
\* when above 7, and no spacing issue from 2 to 7.
C13_SpacingRule ==
    ValidatorReturned =>
        \A c \in Range(EligibleCourses(Val(parser_output))) :
          \A tp \in Range(c.topics) :
            LET sched == Val(schedule)
                learn == SelectSeq(TopicSessions(sched, c.code, tp.name),
                                   LAMBDA x : x.s.type = "learning")
                rev == TopicDates(sched, c.code, tp.name,
                                  {"review_1", "review_2"})
                gap == SetMin(rev) - learn[1].date
                got == SpacingIssues(c.code, tp.name)
            IN /\ learn = << >> => got = << << "ERROR", "no_learning" >> >>
               /\ (learn # << >> /\ rev = {}) =>
                     got = << << "WARNING", "no_review" >> >>
               /\ (Len(learn) = 1 /\ rev # {}) =>
                     got = IF gap < 2
                           THEN << << "WARNING", "review_too_soon" >> >>
                           ELSE IF gap > 7
                           THEN << << "WARNING", "review_too_late" >> >>
                           ELSE << >>

C20_TagsPartitionIssues ==
    ValidatorReturned =>
        LET all_issues == Val(csv_output).header
        IN /\ \A k \in 1..Len(all_issues) :
                all_issues[k].tag \in {"ERROR", "WARNING"}
           /\ errors = SelectSeq(all_issues, LAMBDA i : i.tag = "ERROR")
           /\ warnings = SelectSeq(all_issues, LAMBDA i : i.tag = "WARNING")
           /\ Range(errors) \cap Range(warnings) = {}
           /\ Len(errors) + Len(warnings) = Len(all_issues)

\* a WARNING produced before an ERROR: the lists are not a prefix split
C20_Witness ==
    /\ ValidatorReturned
    /\ \E j, k \in 1..Len(Val(csv_output).header) :
          /\ j < k
          /\ Val(csv_output).header[j].tag = "WARNING"
          /\ Val(csv_output).header[k].tag = "ERROR"

SESSION_TYPES == {"learning", "review_1", "review_2"}

\* C14: every session of a candidate returned by generate or repair has
\* its date in valid_dates, its topic in valid_topics of its course and
\* its type among learning, review_1, review_2, whatever the oracle
\* answered.
C14_ClosedSetCompliance ==
    (mode \in {"cli", "adk"} /\ IsSome(parser_output) /\ IsSome(schedule)
       /\ EligibleCourses(Val(parser_output)) # << >>) =>
        LET req == ScheduleRequest("generate", Val(parser_output), << >>,
                                   today, << >>, << >>)
        IN \A x \in Range(DatedSessions(Val(schedule))) :
              /\ x.date \in Range(req.valid_dates)
              /\ \E i \in 1..Len(req.courses) :
                    /\ req.courses[i] = x.s.course
                    /\ x.s.topic \in Range(req.valid_topics[i])
              /\ x.s.type \in SESSION_TYPES

\* C16: with no course that has a midterm date, generate and repair each
\* return the empty schedule and send no request to the oracle.
C16_NoEligibleNoOracle ==
    [][(GenerationCall /\ IsSome(parser_output)
          /\ EligibleCourses(Val(parser_output)) = << >>) =>
         /\ pc' = "validate"
         /\ schedule' = Some(<< >>)
         /\ last_request' = last_request
      ]_vars

\* a repair has returned for a catalog without eligible courses, and the
\* only request ever sent is the ranking request
C16_Witness ==
    /\ IsSome(parser_output)
    /\ EligibleCourses(Val(parser_output)) = << >>
    /\ repair_calls >= 1 /\ gen_calls >= 2
    /\ schedule = Some(<< >>)
    /\ Val(last_request).kind = "rank"

\* C17: the candidate of the initial generation is always validated next,
\* also when it is empty, and that validation is attempt 1.
C17_InitialCandidateValidated ==
    [][(pc = "validate" /\ gen_calls = 1 /\ IsSome(parser_output)
          /\ IsSome(schedule)) =>
         /\ val_calls' = 1
         /\ pc' # "fatal" => attempt' = 1
      ]_vars

\* the stage about to run lacks an input it needs
LacksCatalog == ~IsSome(parser_output)

MissingPrecondition ==
    /\ mode = "adk"
    /\ \/ pc = "rank" /\ LacksCatalog
       \/ pc = "generate" /\ (LacksCatalog \/ ~IsSome(priorities))
       \/ pc = "validate" /\ (LacksCatalog \/ ~IsSome(schedule))

NamedError ==
    CASE pc = "rank" -> RUN_PARSER_FIRST
      [] pc = "generate" -> IF LacksCatalog THEN RUN_PARSER_FIRST
                            ELSE NO_PRIORITIES
      [] OTHER -> IF LacksCatalog THEN NO_PARSER_OUTPUT ELSE NO_SCHEDULE

\* C18: a stage run while the state lacks what it needs (no catalog for
\* rank, generate or validate; no priorities for generate; no schedule for
\* validate) returns its named error, calls no oracle or validator, and
\* leaves schedule, errors, warnings, priorities, csv output and the
\* attempt counter as they were.
C18_MissingPreconditionReported ==
    [][MissingPrecondition =>
         /\ tool_result' = NamedError
         /\ UNCHANGED << schedule, errors, warnings, priorities, csv_output,
                         study_plan_csv, attempt, escalate, last_request,
                         last_gen, rank_calls, gen_calls, repair_calls,
                         val_calls >>
      ]_vars

\* generate ran with a catalog but no priority table, and what the state
\* held before is still there
C18_Witness ==
    /\ mode = "adk" /\ pc = "validate"
    /\ tool_result = NO_PRIORITIES
    /\ IsSome(parser_output) /\ ~IsSome(priorities)
    /\ schedule = Some(ScenarioC) /\ errors # << >>
    /\ gen_calls = 0

\* the number of topics of the courses that have a midterm date
RECURSIVE EligibleTopicCount(_)
EligibleTopicCount(courses) ==
    IF courses = << >> THEN 0
    ELSE (IF IsSome(Head(courses).midterm_date)
          THEN Len(Head(courses).topics) ELSE 0)
         + EligibleTopicCount(Tail(courses))

ScheduleRequestSent ==
    IsSome(last_request) /\ Val(last_request).kind \in {"generate", "regenerate"}

\* C19: the review rule in a generate or repair request follows from the
\* number N of topics of the courses with a midterm date alone: above 15
\* the rule that keeps review_1 for the top-priority course only and drops
\* review_2, from 11 to 15 the middle rule, up to 10 the full rule.
C19_ReviewTierByTopicCount ==
    ScheduleRequestSent =>
        LET N == EligibleTopicCount(Val(parser_output).courses)
        IN Val(last_request).review_tier =
              IF N > 15 THEN "top_course_review_1_only"
              ELSE IF N >= 11 THEN "review_1_optional_low_pages"
              ELSE "full"

\* a repair request with 15 counted topics and the middle rule, for a
\* catalog that holds 21 topics once the course without a midterm date is
\* counted
C19_Witness ==
    /\ ScheduleRequestSent
    /\ Val(last_request).kind = "regenerate"
    /\ Val(parser_output).courses = << BigCourse(15), ARCH300 >>
    /\ Val(last_request).review_tier = "review_1_optional_low_pages"

\* C21: an unparseable response is followed by a local repair and at most
\* one re-prompt, and a second unparseable response is fatal: one
\* generation attempt makes at most two oracle calls and two parse
\* attempts.
C21_AtMostOneReprompt == call.llm_calls <= 2 /\ call.loads <= 2

\* C22: one oracle call makes at most 5 requests; a rate-limit (429) or
\* overload (503) failure of requests 1 to 4 is followed by a sleep and one
\* more request; any other failure, or a 429 or 503 failure of request 5,
\* ends the call with the error and no sleep; a request that succeeds ends
\* the call with its response text.
C22_AtMostFiveRequests ==
    [][(call.pc = "request" /\ call' # call) =>
         LET reply == Val(call'.reply)
             number == call.requests + 1
         IN /\ call'.requests = number /\ number <= 5
            /\ reply.kind # "error" =>
                 /\ call'.pc \in {"returned", "loads"}
                 /\ call'.raw = Some(reply)
                 /\ call'.slept = call.slept
            /\ (reply.kind = "error" /\ reply.code \in {429, 503}
                  /\ number <= 4) =>
                 /\ call'.pc = "request"
                 /\ call'.slept = call.slept + 1
            /\ (reply.kind = "error"
                  /\ (reply.code \notin {429, 503} \/ number = 5)) =>
                 /\ call'.pc = "raised"
                 /\ call'.slept = call.slept
      ]_vars

Terminated == pc \in {"done", "fatal"}

\* C27: every run of the script reaches DONE or a fatal error, with at
\* most 3 generation attempts, at most 3 parse attempts per generation
\* attempt and at most 5 requests per oracle call.
C27_RunTerminates ==
    /\ <>Terminated
    /\ [](gen_calls <= 3 /\ call.loads <= 3 /\ call.llm_calls <= 3
          /\ call.requests <= 5)

\* DONE after three generation attempts that left errors
C27_Witness ==
    /\ pc = "done" /\ call.pc = "idle"
    /\ gen_calls = 3 /\ val_calls = 3 /\ errors # << >>

\* the hours of all sessions that carry date d, over every day entry
DateTotal(sched, d) ==
    WrittenTotal(Flatten([i \in 1..Len(sched) |->
                        IF sched[i].date = d THEN sched[i].sessions
                        ELSE << >>]))

\* C23: a candidate validated with zero ERRORs has at most 8 hours on
\* every calendar date, counted over all sessions that carry the date,
\* also when several day entries share it.
C23_DateTotalAtMostEight ==
    (ValidatorReturned /\ errors = << >>) =>
        \A i \in 1..Len(Val(schedule)) :
            DateTotal(Val(schedule), Val(schedule)[i].date) <= 800

\* the learning sessions of one topic, as positions in the candidate
LearningSessions(sched, code, name) ==
    { k \in 1..Len(DatedSessions(sched)) :
        LET x == DatedSessions(sched)[k]
        IN x.s.course = code /\ x.s.topic = name /\ x.s.type = "learning" }

\* C24: a candidate validated with zero ERRORs holds exactly one learning
\* session for every topic of every course that has a midterm date.
C24_ExactlyOneLearning ==
    (ValidatorReturned /\ errors = << >>) =>
        \A c \in Range(EligibleCourses(Val(parser_output))) :
            \A t \in Range(c.topics) :
                Cardinality(LearningSessions(Val(schedule), c.code,
                                             t.name)) = 1

\* two strs that differ at most in the case of their ASCII letters
EqualIgnoringCase(a, b) ==
    /\ Len(a) = Len(b)
    /\ \A k \in 1..Len(a) :
          \/ a[k] = b[k]
          \/ 65 <= a[k] /\ a[k] <= 90 /\ b[k] = a[k] + 32
          \/ 65 <= b[k] /\ b[k] <= 90 /\ a[k] = b[k] + 32

IsRestDay(d, rest_days) ==
    \E k \in 1..Len(rest_days) :
        EqualIgnoringCase(rest_days[k], DAY_NAMES[weekday(d) + 1])

\* the latest midterm date over the courses that have one
LatestMidterm(po) ==
    CHOOSE m \in { Val(c.midterm_date) : c \in Range(EligibleCourses(po)) } :
        \A c \in Range(EligibleCourses(po)) : Val(c.midterm_date) <= m

StudyDays(po, now) ==
    { d \in (now + 1)..(LatestMidterm(po) - 1) :
        ~IsRestDay(d, po.preferences.rest_days) }

StrictlyAscending(seq) ==
    \A k \in 1..(Len(seq) - 1) : seq[k] < seq[k + 1]

\* C25: valid_dates is the ascending sequence of exactly the days from
\* tomorrow up to the day before the latest midterm date of the courses
\* that have one, without the days whose weekday name is a rest day in
\* any letter case; every schedule request sent carries that sequence.
C25_ValidDatesExact ==
    (IsSome(parser_output) /\ EligibleCourses(Val(parser_output)) # << >>) =>
        LET po == Val(parser_output)
            valid_dates == _get_valid_dates(today + 1, LatestExam(po),
                                            po.preferences.rest_days)
        IN /\ StrictlyAscending(valid_dates)
           /\ Range(valid_dates) = StudyDays(po, today)
           /\ ScheduleRequestSent =>
                Val(last_request).valid_dates = valid_dates

\* a request sent on Friday 2025-03-07 for a last exam on Monday the 10th,
\* with SuNdAy as the rest day: Saturday the 8th is the only study day
C25_Witness ==
    /\ ScheduleRequestSent
    /\ today = 7
    /\ Val(parser_output).preferences.rest_days = << Str("SuNdAy") >>
    /\ Val(parser_output).courses = << CS102, CS101 >>
    /\ Val(last_request).valid_dates = << 8 >>

\* C26: for every catalog and PriorityTable, repair computes the same
\* constraints as generate (eligible courses, valid_dates, valid_topics,
\* review tier, max-hours rule) and adds only the violations and the
\* previous candidate.
C26_RepairSameConstraints ==
    (IsSome(parser_output) /\ IsSome(priorities)) =>
        LET po == Val(parser_output)
            previous_schedule == IF IsSome(schedule) THEN Val(schedule)
                                 ELSE << >>
            probe == Raised("LLMError")
            g == generate_schedule(po, Val(priorities), today, probe).request
            h == regenerate_schedule(po, Val(priorities), previous_schedule,
                                     errors, today, probe).request
        IN /\ IsSome(g) <=> IsSome(h)
           /\ (IsSome(g) /\ IsSome(h)) =>
                /\ Val(h).courses = Val(g).courses
                /\ Val(h).valid_dates = Val(g).valid_dates
                /\ Val(h).valid_topics = Val(g).valid_topics
                /\ Val(h).review_tier = Val(g).review_tier
                /\ Val(h).max_hours_rule = Val(g).max_hours_rule
                /\ Val(h).priorities = Val(g).priorities
                /\ Val(h).errors = errors
                /\ Val(h).previous_schedule = previous_schedule

Reverse(seq) == [i \in 1..Len(seq) |-> seq[Len(seq) + 1 - i]]

\* the same day entries and sessions in another order
Reorderings(sched) ==
    { Reverse(sched),
      [i \in 1..Len(sched) |->
         Day(sched[i].date, Reverse(sched[i].sessions))] }

\* C28: validate returns the same errors and the same warnings for a
\* candidate and for the same day entries and sessions in another order.
C28_OrderIndependent ==
    ValidatorReturned =>
        \A other \in Reorderings(Val(schedule)) :
            LET r == run_validator(Val(parser_output), other)
            IN /\ r.exc = ""
               /\ Range(r.errors) = Range(errors)
               /\ Range(r.warnings) = Range(warnings)

\* a candidate that follows every rule a request states
Compliant(po, sched, now) ==
    LET eligible == Range(EligibleCourses(po))
    IN /\ eligible # {}
       /\ \A x \in Range(DatedSessions(sched)) :
             /\ x.date \in StudyDays(po, now)
             /\ x.s.type \in SESSION_TYPES
             /\ \E c \in eligible :
                   /\ x.s.course = c.code
                   /\ x.s.topic \in { t.name : t \in Range(c.topics) }
                   /\ x.date < Val(c.midterm_date)
       /\ \A c \in eligible :
             \A t \in Range(c.topics) :
                Cardinality(LearningSessions(sched, c.code, t.name)) = 1
       /\ \A i \in 1..Len(sched) : DateTotal(sched, sched[i].date) <= 800

\* C29: for every catalog with a course that has a midterm date, a
\* candidate that uses only such courses, valid dates and valid topics,
\* has exactly one learning session per topic, keeps every session before
\* its course's midterm date and every day within 8 hours validates with
\* zero ERRORs.
C29_CompliantValidatesClean ==
    (mode = "validator" /\ pc \in {"returned", "raised"}
       /\ Compliant(Val(parser_output), Val(schedule), today)) =>
        pc = "returned" /\ errors = << >>

\* C30: for a catalog with a course that has a midterm date, every
\* generate and every repair call sends its request to the oracle and
\* does not fail before, also when valid_dates is empty.
C30_GenerateReachesOracle ==
    [][(GenerationCall /\ IsSome(parser_output) /\ IsSome(priorities)
          /\ EligibleCourses(Val(parser_output)) # << >>) =>
         /\ IsSome(last_request')
         /\ Val(last_request').kind = Val(last_gen').kind
         /\ tool_result' \in {"ok", "LLMError", "ValueError",
                             "JSONDecodeError"}
      ]_vars

====
